---- MODULE Spec2Model ----
(***************************************************************************)
(* Street network model and intervention simulator                         *)
(* (scripts/street_network.py, scripts/intervention_simulator.py).         *)
(*                                                                         *)
(* Conventions                                                             *)
(*  - Risk scores are floats that are sums of multiples of 0.5; they are   *)
(*    kept in tenths (27.0 is 270), which is exact.                        *)
(*  - Widths in feet and lengths in metres are whole numbers.              *)
(*  - Python objects live in `heap`, a sequence of objects; an address is  *)
(*    an index of the sequence.  Dicts keep insertion order.               *)
(***************************************************************************)
EXTENDS Integers, Sequences, FiniteSets, TLC

VARIABLES heap, baseline, scenarios, ops, pc, obj, criteria, ret

vars == <<heap, baseline, scenarios, ops, pc, obj, criteria, ret>>

netVars == <<heap, baseline, scenarios, ops>>
callVars == <<pc, obj, criteria, ret>>

(***************************************************************************)
(* Bounds                                                                  *)
(***************************************************************************)
MaxCrashCount == 1
MaxOps == 3

(***************************************************************************)
(* StreetEdge: the dataclass fields with their defaults.                   *)
(***************************************************************************)
StreetEdge(id, from_node, to_node) ==
  [ id |-> id, from_node |-> from_node, to_node |-> to_node,
    name |-> "Unknown Street", length_meters |-> 0,
    road_class |-> "unknown", functional_class |-> -1, lanes |-> 2,
    speed_limit_mph |-> 25, posted_speed_mph |-> 25, design_speed_mph |-> 30,
    lane_width_feet |-> 12,
    has_sidewalk_north |-> FALSE, has_sidewalk_south |-> FALSE,
    sidewalk_width_feet |-> 0, has_buffer |-> FALSE, buffer_width_feet |-> 0,
    has_street_trees |-> FALSE, has_bike_lane |-> FALSE,
    bike_lane_protected |-> FALSE,
    lighting_quality |-> "none", lighting_spacing_feet |-> 0,
    land_use |-> "unknown", pedestrian_volume |-> "unknown", vehicle_aadt |-> 0,
    is_stroad |-> FALSE, crash_count |-> 0, crash_fatality_count |-> 0,
    risk_score |-> 0 ]

Max(a, b) == IF a >= b THEN a ELSE b

(***************************************************************************)
(* StreetEdge.calculate_risk_score: the terms added to `score`, in tenths. *)
(***************************************************************************)
SpeedTermOffByOne(e) ==
  IF e.speed_limit_mph > 45 THEN 100
  ELSE IF e.speed_limit_mph >= 35 THEN 70
  ELSE IF e.speed_limit_mph >= 25 THEN 30
  ELSE 10

SpeedTermTiersSwapped(e) ==
  IF e.speed_limit_mph >= 45 THEN 70
  ELSE IF e.speed_limit_mph >= 35 THEN 100
  ELSE IF e.speed_limit_mph >= 25 THEN 30
  ELSE 10

SpeedTerm(e) ==
  IF e.speed_limit_mph >= 45 THEN 100
  ELSE IF e.speed_limit_mph >= 35 THEN 70
  ELSE IF e.speed_limit_mph >= 25 THEN 30
  ELSE 10

\* lines 122-124
LaneWidthTerm(e) == IF e.lane_width_feet >= 12 THEN 20 ELSE 0

\* lines 126-132
LaneCountTerm(e) ==
  IF e.lanes >= 6 THEN 50
  ELSE IF e.lanes >= 4 THEN 30
  ELSE IF e.lanes >= 3 THEN 15
  ELSE 0

\* lines 134-136
StroadTerm(e) == IF e.is_stroad THEN 80 ELSE 0

SidewalkTermNarrowWorse(e) ==
  IF ~e.has_sidewalk_north /\ ~e.has_sidewalk_south THEN 50
  ELSE IF e.sidewalk_width_feet < 5 THEN 70
  ELSE 0

\* lines 138-142
SidewalkTerm(e) ==
  IF ~e.has_sidewalk_north /\ ~e.has_sidewalk_south THEN 50
  ELSE IF e.sidewalk_width_feet < 5 THEN 20
  ELSE 0

\* lines 144-145
BufferTerm(e) == IF ~e.has_buffer THEN 30 ELSE 0

\* lines 147-151
LightingTerm(e) ==
  IF e.lighting_quality = "none" THEN 60
  ELSE IF e.lighting_quality = "poor" THEN 40
  ELSE 0

\* lines 153-157
TrafficTerm(e) ==
  IF e.vehicle_aadt > 20000 THEN 30
  ELSE IF e.vehicle_aadt > 10000 THEN 20
  ELSE 0

\* lines 159-167: the mitigations
MitigationTerm(e) ==
    (IF e.has_bike_lane /\ e.bike_lane_protected THEN -30 ELSE 0)
  + (IF e.has_street_trees THEN -20 ELSE 0)
  + (IF e.has_buffer /\ e.buffer_width_feet >= 8 THEN -20 ELSE 0)

\* lines 169-171
CrashTerm(e) == e.crash_count * 20 + e.crash_fatality_count * 100

\* `score` at line 173: the statements of the method add one term each
RawRiskScore(e) ==
    SpeedTerm(e) + LaneWidthTerm(e) + LaneCountTerm(e) + StroadTerm(e)
  + SidewalkTerm(e) + BufferTerm(e) + LightingTerm(e) + TrafficTerm(e)
  + MitigationTerm(e) + CrashTerm(e)

calculate_risk_score_unclamped(e) == [e EXCEPT !.risk_score = RawRiskScore(e)]

\* The edge after the call: risk_score is assigned max(0.0, score).
calculate_risk_score_accumulating(e) ==
  [e EXCEPT !.risk_score = Max(0, e.risk_score + RawRiskScore(e))]

calculate_risk_score_without_store(e) == e

calculate_risk_score(e) == [e EXCEPT !.risk_score = Max(0, RawRiskScore(e))]

(***************************************************************************)
(* Inputs of the scoring specification.                                    *)
(***************************************************************************)
SpeedValues == {20, 25, 35, 45}
LaneValues == {2, 3, 4, 6}
LaneWidthValues == {10, 12}
SidewalkValues == { <<FALSE, FALSE, 0>>, <<TRUE, FALSE, 0>>,
                    <<FALSE, TRUE, 5>>, <<TRUE, TRUE, 5>> }
BufferValues == { <<FALSE, 0>>, <<TRUE, 0>>, <<TRUE, 8>> }
LightingValues == {"none", "poor", "good"}
AadtValues == {0, 20000, 20001}
BikeValues == { <<FALSE, FALSE>>, <<TRUE, FALSE>>, <<TRUE, TRUE>> }
CrashValues == { <<c, f>> \in (0..MaxCrashCount) \X (0..MaxCrashCount) : f <= c }

ScoreInputs ==
  { [StreetEdge("e1", "A", "B") EXCEPT
       !.speed_limit_mph = sp, !.lanes = ln, !.lane_width_feet = lw,
       !.is_stroad = st,
       !.has_sidewalk_north = sw[1], !.has_sidewalk_south = sw[2],
       !.sidewalk_width_feet = sw[3],
       !.has_buffer = bf[1], !.buffer_width_feet = bf[2],
       !.lighting_quality = lq, !.vehicle_aadt = aadt,
       !.has_bike_lane = bk[1], !.bike_lane_protected = bk[2],
       !.has_street_trees = tr,
       !.crash_count = cr[1], !.crash_fatality_count = cr[2]] :
      sp \in SpeedValues, ln \in LaneValues, lw \in LaneWidthValues,
      st \in BOOLEAN, sw \in SidewalkValues, bf \in BufferValues,
      lq \in LightingValues, aadt \in AadtValues, bk \in BikeValues,
      tr \in BOOLEAN, cr \in CrashValues }

(***************************************************************************)
(* IntersectionNode: the dataclass fields with their defaults.  In the     *)
(* heap connected_edges holds the address of the node's list object.       *)
(***************************************************************************)
IntersectionNode(id, lat, lon) ==
  [ id |-> id, lat |-> lat, lon |-> lon,
    intersection_type |-> "unknown", has_signals |-> FALSE,
    has_pedestrian_signals |-> FALSE,
    has_leading_pedestrian_interval |-> FALSE, has_curb_extensions |-> FALSE,
    has_refuge_island |-> FALSE, has_raised_crossing |-> FALSE,
    crossing_count |-> 0, leg_count |-> 4,
    crash_count |-> 0, crash_fatality_count |-> 0, risk_score |-> 0,
    connected_edges |-> << >> ]

(***************************************************************************)
(* Python values of a scenario definition carry their type: "num" (int or  *)
(* float), "bool", "str", "list".  The attributes of an element have the   *)
(* type of their dataclass field.                                          *)
(***************************************************************************)
PyNum(n) == [t |-> "num", v |-> n]
PyBool(b) == [t |-> "bool", v |-> b]
PyStr(s) == [t |-> "str", v |-> s]
PyList(l) == [t |-> "list", v |-> l]

BoolAttrs == { "has_signals", "has_pedestrian_signals",
               "has_leading_pedestrian_interval", "has_curb_extensions",
               "has_refuge_island", "has_raised_crossing",
               "has_sidewalk_north", "has_sidewalk_south", "has_buffer",
               "has_street_trees", "has_bike_lane", "bike_lane_protected",
               "is_stroad" }
StrAttrs == { "id", "from_node", "to_node", "name", "road_class",
              "lighting_quality", "land_use", "pedestrian_volume",
              "intersection_type" }
ListAttrs == { "connected_edges" }

AttrType(key) ==
  IF key \in BoolAttrs THEN "bool"
  ELSE IF key \in StrAttrs THEN "str"
  ELSE IF key \in ListAttrs THEN "list"
  ELSE "num"

\* getattr(obj, key) as a typed value
GetAttr(o, key) == [t |-> AttrType(key), v |-> o[key]]

\* isinstance(x, (int, float)): bool is a subclass of int
IsIntOrFloat(x) == x.t \in {"num", "bool"}

\* the number a numeric value compares as (True is 1, False is 0)
AsNumber(x) == IF x.t = "bool" THEN (IF x.v THEN 1 ELSE 0) ELSE x.v

\* a == b on typed values
PyEq(a, b) ==
  IF IsIntOrFloat(a) /\ IsIntOrFloat(b) THEN AsNumber(a) = AsNumber(b)
  ELSE a.t = b.t /\ a.v = b.v

RECURSIVE MinNumber(_)
MinNumber(l) ==
  IF Len(l) = 1 THEN AsNumber(l[1])
  ELSE LET m == MinNumber(Tail(l))
       IN  IF AsNumber(l[1]) <= m THEN AsNumber(l[1]) ELSE m

(***************************************************************************)
(* One pass of the loop body of _matches_filter for the clause             *)
(* key: value.  "next": the loop goes on; "False": return False;           *)
(* "TypeError", "IndexError": the exception the statement raises.          *)
(***************************************************************************)
ListClauseMembership(o, key, value) ==
  IF Len(value.v) = 0 THEN "IndexError"
  ELSE IF \A i \in 1..Len(value.v) : ~PyEq(GetAttr(o, key), value.v[i])
         THEN "False"
  ELSE "next"

ListClause(o, key, value) ==
  IF Len(value.v) = 0 THEN "IndexError"
  ELSE IF IsIntOrFloat(value.v[1]) THEN
         IF \E i \in 1..Len(value.v) : ~IsIntOrFloat(value.v[i])
           THEN "TypeError"
         ELSE IF ~IsIntOrFloat(GetAttr(o, key)) THEN "TypeError"
         ELSE IF AsNumber(GetAttr(o, key)) < MinNumber(value.v) THEN "False"
         ELSE "next"
  ELSE IF \A i \in 1..Len(value.v) : ~PyEq(GetAttr(o, key), value.v[i])
         THEN "False"
  ELSE "next"

ScalarClauseGreaterThan(o, key, value) ==
  IF IsIntOrFloat(value) THEN
       IF ~IsIntOrFloat(GetAttr(o, key)) THEN "TypeError"
       ELSE IF AsNumber(GetAttr(o, key)) <= AsNumber(value) THEN "False"
       ELSE "next"
  ELSE IF ~PyEq(GetAttr(o, key), value) THEN "False"
  ELSE "next"

ScalarClause(o, key, value) ==
  IF IsIntOrFloat(value) THEN
       IF ~IsIntOrFloat(GetAttr(o, key)) THEN "TypeError"
       ELSE IF AsNumber(GetAttr(o, key)) < AsNumber(value) THEN "False"
       ELSE "next"
  ELSE IF ~PyEq(GetAttr(o, key), value) THEN "False"
  ELSE "next"

ClauseSkippingMissing(o, key, value) ==
  IF key \notin DOMAIN o THEN "next"
  ELSE IF value.t = "list" THEN ListClause(o, key, value)
  ELSE ScalarClause(o, key, value)

Clause(o, key, value) ==
  IF key \notin DOMAIN o THEN "False"
  ELSE IF value.t = "list" THEN ListClause(o, key, value)
  ELSE ScalarClause(o, key, value)

(***************************************************************************)
(* InterventionSimulator._matches_filter(obj, filter_criteria): a filter   *)
(* is the sequence of its <<key, value>> items in dict order.  The result  *)
(* is "True", "False" or the exception raised.                             *)
(***************************************************************************)
RECURSIVE MatchFrom(_, _, _)
MatchFrom(o, filter_criteria, i) ==
  IF i > Len(filter_criteria) THEN "True"
  ELSE LET r == Clause(o, filter_criteria[i][1], filter_criteria[i][2])
       IN  IF r = "next" THEN MatchFrom(o, filter_criteria, i + 1) ELSE r

matches_filter(o, filter_criteria) == MatchFrom(o, filter_criteria, 1)

(***************************************************************************)
(* Inputs of the filter specification: the filters of                      *)
(* INTERVENTION_SCENARIOS and some more of the same shapes.                *)
(***************************************************************************)
FilterInputs ==
  { << <<"functional_class", PyList(<<PyNum(6), PyNum(7)>>)>>,
       <<"speed_limit_mph", PyNum(25)>> >>,
    << <<"speed_limit_mph", PyNum(45)>> >>,
    << <<"speed_limit_mph", PyNum(35)>> >>,
    << <<"is_stroad", PyBool(TRUE)>> >>,
    << <<"has_sidewalk_north", PyBool(FALSE)>>,
       <<"has_sidewalk_south", PyBool(FALSE)>> >>,
    << <<"lighting_quality", PyList(<<PyStr("none"), PyStr("poor")>>)>> >>,
    << <<"functional_class", PyList(<<PyNum(2), PyNum(3)>>)>>,
       <<"has_bike_lane", PyBool(FALSE)>> >>,
    << <<"road_class", PyStr("residential")>> >>,
    << <<"crash_count", PyNum(2)>> >>,
    << <<"functional_class", PyList(<<PyNum(6), PyNum(7)>>)>> >>,
    << <<"functional_class", PyList(<<PyNum(2), PyNum(3), PyNum(4)>>)>> >>,
    << <<"functional_class", PyList(<<PyNum(7), PyNum(6)>>)>> >>,
    << <<"road_class", PyList(<<PyStr("primary"), PyStr("secondary")>>)>> >>,
    << <<"has_bike_lane", PyBool(FALSE)>> >>,
    << <<"lighting_quality", PyStr("poor")>> >>,
    << <<"road_class", PyNum(3)>> >>,
    << <<"surface", PyStr("gravel")>> >>,
    << <<"has_signals", PyBool(TRUE)>> >>,
    << >> }

FilterEdges ==
  { [StreetEdge("e1", "A", "B") EXCEPT
       !.speed_limit_mph = sp, !.functional_class = fc,
       !.has_sidewalk_north = swn, !.has_sidewalk_south = sws,
       !.lighting_quality = lq, !.is_stroad = st, !.has_bike_lane = bk,
       !.road_class = rc] :
      sp \in {20, 25, 40, 45, 50, 65}, fc \in {-1, 2, 3, 4, 6, 7},
      swn \in BOOLEAN, sws \in BOOLEAN,
      lq \in {"none", "poor", "adequate", "good"}, st \in BOOLEAN,
      bk \in BOOLEAN, rc \in {"residential", "primary"} }

FilterNodes ==
  { [IntersectionNode("A", 0, 0) EXCEPT
       !.crash_count = cr, !.has_signals = sg] :
      cr \in 0..(MaxCrashCount + 2), sg \in BOOLEAN }

NoCriteria == << >>
NoObj == StreetEdge("none", "none", "none")

NetIdle ==
  /\ heap = << >>
  /\ baseline = 0
  /\ scenarios = << >>
  /\ ops = 0

(***************************************************************************)
(* SpecScore: one call of calculate_risk_score on an edge.                 *)
(***************************************************************************)
InitScore ==
  /\ NetIdle
  /\ pc = "call"
  /\ obj \in ScoreInputs
  /\ criteria = NoCriteria
  /\ ret = 0

CallScore ==
  /\ pc = "call"
  /\ obj' = calculate_risk_score(obj)
  /\ ret' = obj'.risk_score
  /\ pc' = "done"
  /\ UNCHANGED <<criteria, netVars>>

NextScore == CallScore

SpecScore == InitScore /\ [][NextScore]_vars

(***************************************************************************)
(* SpecFilter: one call of _matches_filter on an element and a filter.     *)
(***************************************************************************)
InitFilter ==
  /\ NetIdle
  /\ pc = "call"
  /\ obj \in FilterEdges \cup FilterNodes
  /\ criteria \in FilterInputs
  /\ ret = "None"

CallMatchesFilter ==
  /\ pc = "call"
  /\ ret' = matches_filter(obj, criteria)
  /\ pc' = "done"
  /\ UNCHANGED <<obj, criteria, netVars>>

NextFilter == CallMatchesFilter

SpecFilter == InitFilter /\ [][NextFilter]_vars

(***************************************************************************)
(* The heap.  Objects: a StreetNetwork [nodes, edges, crashes] (addresses  *)
(* of its two dicts and its list), a dict [items: <<key, address>> in      *)
(* insertion order], a list [items], an IntersectionNode (connected_edges  *)
(* the address of its list) and a StreetEdge.  Crash records are dicts of  *)
(* scalars that no method writes to; they are kept by value in the crash   *)
(* list.                                                                   *)
(***************************************************************************)
Range(q) == { q[i] : i \in 1..Len(q) }

DictHas(items, k) == \E i \in 1..Len(items) : items[i][1] = k

DictGet(items, k) == items[CHOOSE i \in 1..Len(items) : items[i][1] = k][2]

\* d[k] = a: an existing key keeps its position
DictSet(items, k, a) ==
  IF DictHas(items, k)
    THEN [i \in 1..Len(items) |->
            IF items[i][1] = k THEN <<k, a>> ELSE items[i]]
    ELSE Append(items, <<k, a>>)

DictValues(items) == [i \in 1..Len(items) |-> items[i][2]]

\* StreetNetwork(): the heap with the new network at its last address
NewStreetNetwork(h) ==
  LET h1 == Append(h, [items |-> << >>])
      h2 == Append(h1, [items |-> << >>])
      h3 == Append(h2, [items |-> << >>])
  IN  Append(h3, [nodes |-> Len(h1), edges |-> Len(h2), crashes |-> Len(h3)])

NodeItems(h, net) == h[h[net].nodes].items
EdgeItems(h, net) == h[h[net].edges].items
CrashLog(h, net) == h[h[net].crashes].items

(***************************************************************************)
(* StreetNetwork.add_node(node).  The caller builds a new IntersectionNode *)
(* for the call (as build_street_network and load_from_file do); its       *)
(* __post_init__ gives it a list of its own.                               *)
(***************************************************************************)
add_node(h, net, node) ==
  LET h1 == Append(h, [items |-> node.connected_edges])
      h2 == Append(h1, [node EXCEPT !.connected_edges = Len(h1)])
  IN  [h2 EXCEPT ![h[net].nodes].items = DictSet(@, node.id, Len(h2))]

\* lines 194-196 and 198-200: the endpoint's connected_edges
Connect(h, net, node_id, edge_id) ==
  IF DictHas(NodeItems(h, net), node_id)
    THEN LET l == h[DictGet(NodeItems(h, net), node_id)].connected_edges
         IN  IF edge_id \notin Range(h[l].items)
               THEN [h EXCEPT ![l].items = Append(@, edge_id)]
               ELSE h
    ELSE h

(***************************************************************************)
(* StreetNetwork.add_edge(edge), the caller building a new StreetEdge.     *)
(***************************************************************************)
add_edge(h, net, edge) ==
  LET h1 == Append(h, edge)
      h2 == [h1 EXCEPT ![h[net].edges].items = DictSet(@, edge.id, Len(h1))]
      h3 == Connect(h2, net, edge.from_node, edge.id)
  IN  Connect(h3, net, edge.to_node, edge.id)

(***************************************************************************)
(* StreetNetwork._point_to_segment_distance.  A position is a whole number *)
(* of units of 10 m of the planar metres of lines 252-257 (one degree is   *)
(* MetersPerDegree \div 10 units); the factor cos(radians(px)) of line 250 *)
(* is taken as 1, its value to three decimals within 2.5 degrees of the    *)
(* equator.  Quotients are exact: <<numerator, denominator>> in lowest     *)
(* terms; the result is the square of the distance.                        *)
(***************************************************************************)
MetersPerDegree == 111000

RECURSIVE GCD(_, _)
GCD(a, b) == IF b = 0 THEN a ELSE GCD(b, a % b)

Reduce(q) ==
  IF q[1] = 0 THEN <<0, 1>>
  ELSE <<q[1] \div GCD(q[1], q[2]), q[2] \div GCD(q[1], q[2])>>

Unclamped(q) == q

\* line 265: max(0, min(1, q)), q with a positive denominator
Clamp01(q) ==
  IF q[1] <= 0 THEN <<0, 1>>
  ELSE IF q[1] >= q[2] THEN <<1, 1>>
  ELSE q

\* lines 265-275: t, the closest point x1 + t * dx, y1 + t * dy and the
\* distance of (px, py) to it
DistanceToClosest2(px, py, x1, y1, dx, dy) ==
  LET t == Clamp01(<<(px - x1) * dx + (py - y1) * dy, dx * dx + dy * dy>>)
      ex == (px - x1) * t[2] - t[1] * dx
      ey == (py - y1) * t[2] - t[1] * dy
  IN  Reduce(<<ex * ex + ey * ey, t[2] * t[2]>>)

point_to_segment_distance2(px, py, x1, y1, x2, y2) ==
  IF x2 - x1 = 0 /\ y2 - y1 = 0
    THEN <<(px - x1) * (px - x1) + (py - y1) * (py - y1), 1>>
    ELSE DistanceToClosest2(px, py, x1, y1, x2 - x1, y2 - y1)

\* d1 < d2 and d <= m metres, on squared distances in units of 10 m
DistLessOrEqual(d1, d2) == d1[1] * d2[2] <= d2[1] * d1[2]

DistLess(d1, d2) == d1[1] * d2[2] < d2[1] * d1[2]

DistWithin(d, meters) == 100 * d[1] <= meters * meters * d[2]

\* the candidate edges (both endpoints resolve), in the order of the dict
Resolved(h, net, a) ==
  /\ DictHas(NodeItems(h, net), h[a].from_node)
  /\ DictHas(NodeItems(h, net), h[a].to_node)

EdgeDistance(h, net, a, lat, lon) ==
  LET from_node == h[DictGet(NodeItems(h, net), h[a].from_node)]
      to_node == h[DictGet(NodeItems(h, net), h[a].to_node)]
  IN  point_to_segment_distance2(lat, lon, from_node.lat, from_node.lon,
                                 to_node.lat, to_node.lon)

(***************************************************************************)
(* StreetNetwork.find_nearest_edge: the loop over edges.values() from the  *)
(* i-th edge on, with `nearest` (0 is None) and its distance so far.       *)
(***************************************************************************)
RECURSIVE NearestFrom(_, _, _, _, _, _)
NearestFrom(h, net, lat, lon, i, best) ==
  IF i > Len(EdgeItems(h, net)) THEN best
  ELSE LET a == EdgeItems(h, net)[i][2]
       IN  IF ~Resolved(h, net, a)
             THEN NearestFrom(h, net, lat, lon, i + 1, best)
           ELSE LET dist == EdgeDistance(h, net, a, lat, lon)
                IN  IF best.nearest = 0 \/ DistLess(dist, best.dist)
                      THEN NearestFrom(h, net, lat, lon, i + 1,
                                       [nearest |-> a, dist |-> dist])
                      ELSE NearestFrom(h, net, lat, lon, i + 1, best)

\* the address of the nearest edge, 0 for None
find_nearest_edge(h, net, lat, lon, max_distance_meters) ==
  LET best == NearestFrom(h, net, lat, lon, 1,
                          [nearest |-> 0, dist |-> <<0, 1>>])
  IN  IF best.nearest # 0 /\ DistWithin(best.dist, max_distance_meters)
        THEN best.nearest
        ELSE 0

\* crash_data.get(key) is truthy: the key is present and its value is not
\* None, 0 or False
Truthy(crash_data, key) ==
  /\ key \in DOMAIN crash_data
  /\ IF key = "fatal" THEN crash_data[key] ELSE crash_data[key] # 0

(***************************************************************************)
(* StreetNetwork.add_crash(crash_data)                                     *)
(***************************************************************************)
add_crash_without_log(h, net, crash_data) ==
  LET h1 == h
  IN  IF Truthy(crash_data, "lat") /\ Truthy(crash_data, "lon")
        THEN LET nearest_edge ==
                   find_nearest_edge(h1, net, crash_data.lat, crash_data.lon, 50)
             IN  IF nearest_edge # 0
                   THEN [h1 EXCEPT
                           ![nearest_edge].crash_count = @ + 1,
                           ![nearest_edge].crash_fatality_count =
                              IF Truthy(crash_data, "fatal") THEN @ + 1 ELSE @]
                   ELSE h1
        ELSE h1

add_crash_rescoring(h, net, crash_data) ==
  LET h1 == add_crash_without_log(
              [h EXCEPT ![h[net].crashes].items = Append(@, crash_data)],
              net, crash_data)
  IN  [a \in 1..Len(h1) |->
         IF a \in Range(DictValues(EdgeItems(h1, net)))
           THEN calculate_risk_score(h1[a])
           ELSE h1[a]]

add_crash(h, net, crash_data) ==
  LET h1 == [h EXCEPT ![h[net].crashes].items = Append(@, crash_data)]
  IN  IF Truthy(crash_data, "lat") /\ Truthy(crash_data, "lon")
        THEN LET nearest_edge ==
                   find_nearest_edge(h1, net, crash_data.lat, crash_data.lon, 50)
             IN  IF nearest_edge # 0
                   THEN [h1 EXCEPT
                           ![nearest_edge].crash_count = @ + 1,
                           ![nearest_edge].crash_fatality_count =
                              IF Truthy(crash_data, "fatal") THEN @ + 1 ELSE @]
                   ELSE h1
        ELSE h1

(***************************************************************************)
(* StreetNetwork.calculate_all_risk_scores                                 *)
(***************************************************************************)
calculate_all_risk_scores(h, net) ==
  [a \in 1..Len(h) |->
     IF a \in Range(DictValues(EdgeItems(h, net)))
       THEN calculate_risk_score(h[a])
       ELSE h[a]]

(***************************************************************************)
(* copy.deepcopy(network).  Every object reachable from a network is       *)
(* referenced once (each add_node, add_edge call stores an object of its   *)
(* own), so the copy is the copy of a tree.  The result is a heap with the *)
(* copy of the network at its last address.                                *)
(***************************************************************************)
CopyNodeSharingList(h, a) == Append(h, h[a])

CopyNode(h, a) ==
  LET h1 == Append(h, h[h[a].connected_edges])
  IN  Append(h1, [h[a] EXCEPT !.connected_edges = Len(h1)])

CopyEdge(h, a) == Append(h, h[a])

RECURSIVE CopyNodeItems(_, _)
CopyNodeItems(h, items) ==
  IF items = << >> THEN [h |-> h, items |-> << >>]
  ELSE LET h1 == CopyNode(h, items[1][2])
           rest == CopyNodeItems(h1, Tail(items))
       IN  [h |-> rest.h,
            items |-> << <<items[1][1], Len(h1)>> >> \o rest.items]

RECURSIVE CopyEdgeItems(_, _)
CopyEdgeItems(h, items) ==
  IF items = << >> THEN [h |-> h, items |-> << >>]
  ELSE LET h1 == CopyEdge(h, items[1][2])
           rest == CopyEdgeItems(h1, Tail(items))
       IN  [h |-> rest.h,
            items |-> << <<items[1][1], Len(h1)>> >> \o rest.items]

\* copy.copy(network): a new network object over the same dicts and list
shallowcopy(h, net) == Append(h, h[net])

deepcopy(h, net) ==
  LET n == CopyNodeItems(h, NodeItems(h, net))
      h1 == Append(n.h, [items |-> n.items])
      e == CopyEdgeItems(h1, EdgeItems(h, net))
      h2 == Append(e.h, [items |-> e.items])
      h3 == Append(h2, [items |-> CrashLog(h, net)])
  IN  Append(h3, [nodes |-> Len(h1), edges |-> Len(h2), crashes |-> Len(h3)])

(***************************************************************************)
(* InterventionSimulator.apply_scenario: the modifications.                *)
(* A modification is [type, filter, change]; filter and change are the     *)
(* sequences of the items of their dicts.                                  *)
(***************************************************************************)
EdgeModTypes == { "speed_limit", "sidewalk", "lighting", "bike_lane",
                  "traffic_calming", "stroad_fix" }

SetAttrsWithoutHasattr(o, changes) ==
  [k \in DOMAIN o \cup { changes[i][1] : i \in 1..Len(changes) } |->
     IF DictHas(changes, k) THEN DictGet(changes, k).v ELSE o[k]]

\* lines 245-247: setattr for every key of `changes` the element has
SetAttrs(o, changes) ==
  [k \in DOMAIN o |->
     IF DictHas(changes, k) THEN DictGet(changes, k).v ELSE o[k]]

\* the element as _matches_filter sees it: connected_edges is the list
Deref(h, a) ==
  IF "connected_edges" \in DOMAIN h[a]
    THEN [h[a] EXCEPT !.connected_edges = h[h[a].connected_edges].items]
    ELSE h[a]

\* lines 243-248 / 252-257: the loop over the elements at `targets`;
\* err is the exception that ended it, "" if none
RECURSIVE ModifyFrom(_, _, _, _)
ModifyFrom(h, targets, m, i) ==
  IF i > Len(targets) THEN [h |-> h, err |-> ""]
  ELSE LET a == targets[i]
           r == matches_filter(Deref(h, a), m.filter)
       IN  IF r = "True"
             THEN ModifyFrom([h EXCEPT ![a] = SetAttrs(@, m.change)],
                             targets, m, i + 1)
           ELSE IF r = "False" THEN ModifyFrom(h, targets, m, i + 1)
           ELSE [h |-> h, err |-> r]

ApplyModification(h, net, m) ==
  IF m.type \in EdgeModTypes
    THEN ModifyFrom(h, DictValues(EdgeItems(h, net)), m, 1)
  ELSE IF m.type = "intersection_upgrade"
    THEN ModifyFrom(h, DictValues(NodeItems(h, net)), m, 1)
  ELSE [h |-> h, err |-> ""]

RECURSIVE ApplyModificationsReversed(_, _, _, _)
ApplyModificationsReversed(h, net, modifications, i) ==
  IF i > Len(modifications) THEN [h |-> h, err |-> ""]
  ELSE LET r == ApplyModification(h, net,
                                  modifications[Len(modifications) + 1 - i])
       IN  IF r.err # "" THEN r
           ELSE ApplyModificationsReversed(r.h, net, modifications, i + 1)

\* lines 235-257: the loop over scenario.modifications
RECURSIVE ApplyModifications(_, _, _, _)
ApplyModifications(h, net, modifications, i) ==
  IF i > Len(modifications) THEN [h |-> h, err |-> ""]
  ELSE LET r == ApplyModification(h, net, modifications[i])
       IN  IF r.err # "" THEN r
           ELSE ApplyModifications(r.h, net, modifications, i + 1)

CloneOfLastResult(h, base, stored) ==
  IF stored = << >> THEN deepcopy(h, base)
  ELSE deepcopy(h, stored[Len(stored)][2])

\* line 229: the heap with modified_network at its last address
CloneOfBaseline(h, base, stored) == deepcopy(h, base)

apply_scenario_without_rescoring(h, base, stored, scenario_name, scenario) ==
  LET h0 == CloneOfBaseline(h, base, stored)
      modified_network == Len(h0)
      r == ApplyModifications(h0, modified_network, scenario.modifications, 1)
  IN  IF r.err # "" THEN [h |-> h, scenarios |-> stored, err |-> r.err]
      ELSE [h |-> r.h,
            scenarios |-> DictSet(stored, scenario_name, modified_network),
            err |-> ""]

apply_scenario_scoring_first(h, base, stored, scenario_name, scenario) ==
  LET h0 == CloneOfBaseline(h, base, stored)
      modified_network == Len(h0)
      r == ApplyModifications(calculate_all_risk_scores(h0, modified_network),
                              modified_network, scenario.modifications, 1)
  IN  IF r.err # "" THEN [h |-> h, scenarios |-> stored, err |-> r.err]
      ELSE [h |-> r.h,
            scenarios |-> DictSet(stored, scenario_name, modified_network),
            err |-> ""]

(***************************************************************************)
(* apply_scenario(scenario_name, scenario): [h, scenarios, err].  When an  *)
(* exception leaves the method nothing was stored and the clone is         *)
(* unreachable.                                                            *)
(***************************************************************************)
apply_scenario(h, base, stored, scenario_name, scenario) ==
  LET h0 == CloneOfBaseline(h, base, stored)
      modified_network == Len(h0)
      r == ApplyModifications(h0, modified_network, scenario.modifications, 1)
  IN  IF r.err # "" THEN [h |-> h, scenarios |-> stored, err |-> r.err]
      ELSE [h |-> calculate_all_risk_scores(r.h, modified_network),
            scenarios |-> DictSet(stored, scenario_name, modified_network),
            err |-> ""]

(***************************************************************************)
(* StreetNetwork.get_statistics.  A quotient is kept as the pair           *)
(* <<dividend, divisor>>; avg_risk_score is in tenths.                     *)
(***************************************************************************)
RECURSIVE Sum(_)
Sum(numbers) ==
  IF numbers = << >> THEN 0 ELSE Head(numbers) + Sum(Tail(numbers))

get_statistics_unguarded(h, net) ==
  LET addrs == DictValues(EdgeItems(h, net))
      edges == [i \in 1..Len(addrs) |-> h[addrs[i]]]
      Count(flags) == Sum([i \in 1..Len(flags) |-> IF flags[i] THEN 1 ELSE 0])
      total_length == Sum([i \in 1..Len(edges) |-> edges[i].length_meters])
      edges_with_sidewalks ==
        Count([i \in 1..Len(edges) |->
                 edges[i].has_sidewalk_north \/ edges[i].has_sidewalk_south])
      edges_with_lighting ==
        Count([i \in 1..Len(edges) |->
                 edges[i].lighting_quality \in {"adequate", "good"}])
      stroads == Count([i \in 1..Len(edges) |-> edges[i].is_stroad])
      high_speed_edges ==
        Count([i \in 1..Len(edges) |-> edges[i].speed_limit_mph >= 35])
  IN  [ node_count |-> Len(NodeItems(h, net)),
        edge_count |-> Len(edges),
        total_length_km |-> <<total_length, 1000>>,
        total_crashes |-> Sum([i \in 1..Len(edges) |-> edges[i].crash_count]),
        total_fatalities |->
          Sum([i \in 1..Len(edges) |-> edges[i].crash_fatality_count]),
        edges_with_sidewalks |-> edges_with_sidewalks,
        sidewalk_coverage_pct |->
          <<edges_with_sidewalks * 100, Len(edges)>>,
        edges_with_adequate_lighting |-> edges_with_lighting,
        lighting_coverage_pct |->
          <<edges_with_lighting * 100, Len(edges)>>,
        stroad_count |-> stroads,
        high_speed_edge_count |-> high_speed_edges,
        avg_risk_score |->
          <<Sum([i \in 1..Len(edges) |-> edges[i].risk_score]), Len(edges)>> ]

get_statistics(h, net) ==
  LET addrs == DictValues(EdgeItems(h, net))
      edges == [i \in 1..Len(addrs) |-> h[addrs[i]]]
      Count(flags) == Sum([i \in 1..Len(flags) |-> IF flags[i] THEN 1 ELSE 0])
      total_length == Sum([i \in 1..Len(edges) |-> edges[i].length_meters])
      edges_with_sidewalks ==
        Count([i \in 1..Len(edges) |->
                 edges[i].has_sidewalk_north \/ edges[i].has_sidewalk_south])
      edges_with_lighting ==
        Count([i \in 1..Len(edges) |->
                 edges[i].lighting_quality \in {"adequate", "good"}])
      stroads == Count([i \in 1..Len(edges) |-> edges[i].is_stroad])
      high_speed_edges ==
        Count([i \in 1..Len(edges) |-> edges[i].speed_limit_mph >= 35])
  IN  [ node_count |-> Len(NodeItems(h, net)),
        edge_count |-> Len(edges),
        total_length_km |-> <<total_length, 1000>>,
        total_crashes |-> Sum([i \in 1..Len(edges) |-> edges[i].crash_count]),
        total_fatalities |->
          Sum([i \in 1..Len(edges) |-> edges[i].crash_fatality_count]),
        edges_with_sidewalks |-> edges_with_sidewalks,
        sidewalk_coverage_pct |->
          IF Len(edges) # 0 THEN <<edges_with_sidewalks * 100, Len(edges)>>
          ELSE <<0, 1>>,
        edges_with_adequate_lighting |-> edges_with_lighting,
        lighting_coverage_pct |->
          IF Len(edges) # 0 THEN <<edges_with_lighting * 100, Len(edges)>>
          ELSE <<0, 1>>,
        stroad_count |-> stroads,
        high_speed_edge_count |-> high_speed_edges,
        avg_risk_score |->
          IF Len(edges) # 0
            THEN <<Sum([i \in 1..Len(edges) |-> edges[i].risk_score]), Len(edges)>>
            ELSE <<0, 1>> ]

(***************************************************************************)
(* Inputs of the simulator specification.  Positions are in units of 10 m. *)
(***************************************************************************)
\* the edge of the specification's Scenario 1
Scenario1Edge ==
  [StreetEdge("e1", "A", "B") EXCEPT
     !.speed_limit_mph = 45, !.lanes = 4,
     !.has_sidewalk_north = FALSE, !.has_sidewalk_south = FALSE,
     !.lighting_quality = "none",
     !.crash_count = 0, !.crash_fatality_count = 0]

NodeA == IntersectionNode("A", 1, 1)
NodeB == IntersectionNode("B", 1, 5)

EdgeE2 ==
  [StreetEdge("e2", "B", "A") EXCEPT
     !.has_sidewalk_north = TRUE, !.sidewalk_width_feet = 4,
     !.lighting_quality = "good", !.lane_width_feet = 10]

NodeInputs ==
  { [IntersectionNode("A", 3, 1) EXCEPT !.crash_count = 2],
    IntersectionNode("C", 9, 9) }

EdgeInputs ==
  { [StreetEdge("e1", "B", "B") EXCEPT !.speed_limit_mph = 35],
    [StreetEdge("e2", "A", "Z") EXCEPT
       !.has_sidewalk_south = TRUE, !.sidewalk_width_feet = 6],
    [StreetEdge("e3", "A", "B") EXCEPT
       !.is_stroad = TRUE, !.speed_limit_mph = 45, !.lanes = 6] }

CrashInputs ==
  { [lat |-> 2, lon |-> 3, fatal |-> TRUE],
    [lat |-> 9, lon |-> 3, fatal |-> FALSE],
    [lon |-> 3] }

\* the modification of the specification's Scenario 2
Scenario2 ==
  [modifications |-> <<
     [type |-> "speed_limit",
      filter |-> << <<"speed_limit_mph", PyNum(45)>> >>,
      change |-> << <<"speed_limit_mph", PyNum(30)>> >>] >>]

complete_sidewalks ==
  [modifications |-> <<
     [type |-> "sidewalk",
      filter |-> << <<"has_sidewalk_north", PyBool(FALSE)>>,
                    <<"has_sidewalk_south", PyBool(FALSE)>> >>,
      change |-> << <<"has_sidewalk_north", PyBool(TRUE)>>,
                    <<"has_sidewalk_south", PyBool(TRUE)>>,
                    <<"sidewalk_width_feet", PyNum(6)>> >>] >>]

protected_intersections ==
  [modifications |-> <<
     [type |-> "intersection_upgrade",
      filter |-> << <<"crash_count", PyNum(2)>> >>,
      change |-> << <<"has_leading_pedestrian_interval", PyBool(TRUE)>>,
                    <<"has_curb_extensions", PyBool(TRUE)>>,
                    <<"has_refuge_island", PyBool(TRUE)>>,
                    <<"has_raised_crossing", PyBool(TRUE)>> >>] >>]

\* a filter that compares a string attribute with a number
ill_typed ==
  [modifications |-> <<
     [type |-> "traffic_calming",
      filter |-> << <<"road_class", PyNum(3)>> >>,
      change |-> << <<"design_speed_mph", PyNum(20)>> >>] >>]

ScenarioInputs ==
  { Scenario2, complete_sidewalks, protected_intersections, ill_typed }

ScenarioNames == {"s1", "s2"}

(***************************************************************************)
(* Baselines the simulator is constructed over: networks built by          *)
(* add_node, add_edge and calculate_all_risk_scores.  The network is the   *)
(* 4th object of its heap.                                                 *)
(***************************************************************************)
EmptyHeap == NewStreetNetwork(<< >>)
BaselineAddress == Len(EmptyHeap)

OneEdgeHeap ==
  add_edge(add_node(add_node(EmptyHeap, BaselineAddress, NodeA),
                    BaselineAddress, NodeB),
           BaselineAddress, Scenario1Edge)

TwoEdgeHeap ==
  calculate_all_risk_scores(add_edge(OneEdgeHeap, BaselineAddress, EdgeE2),
                            BaselineAddress)

InitialHeaps == { EmptyHeap, OneEdgeHeap, TwoEdgeHeap }

\* the networks at hand: the baseline and the stored scenario results
Networks == {baseline} \cup Range(DictValues(scenarios))

(***************************************************************************)
(* Spec: InterventionSimulator(baseline_network), then calls on the        *)
(* networks and on the simulator.                                          *)
(***************************************************************************)
Init ==
  /\ heap \in InitialHeaps
  /\ baseline = BaselineAddress
  /\ scenarios = << >>
  /\ ops = 0
  /\ pc = "idle"
  /\ obj = NoObj
  /\ criteria = NoCriteria
  /\ ret = 0

AddNode(net, node) ==
  /\ ops < MaxOps
  /\ heap' = add_node(heap, net, node)
  /\ ops' = ops + 1
  /\ UNCHANGED <<baseline, scenarios, callVars>>

AddEdge(net, edge) ==
  /\ ops < MaxOps
  /\ heap' = add_edge(heap, net, edge)
  /\ ops' = ops + 1
  /\ UNCHANGED <<baseline, scenarios, callVars>>

AddCrash(net, crash_data) ==
  /\ ops < MaxOps
  /\ heap' = add_crash(heap, net, crash_data)
  /\ ops' = ops + 1
  /\ UNCHANGED <<baseline, scenarios, callVars>>

CalculateAllRiskScores(net) ==
  /\ ops < MaxOps
  /\ heap' = calculate_all_risk_scores(heap, net)
  /\ ops' = ops + 1
  /\ UNCHANGED <<baseline, scenarios, callVars>>

ApplyScenario(scenario_name, scenario) ==
  /\ ops < MaxOps
  /\ LET r == apply_scenario(heap, baseline, scenarios, scenario_name, scenario)
     IN  /\ heap' = r.h
         /\ scenarios' = r.scenarios
  /\ ops' = ops + 1
  /\ UNCHANGED <<baseline, callVars>>

\* a call of add_node, add_edge, add_crash or calculate_all_risk_scores on net
Mutate(net) ==
  \/ \E node \in NodeInputs : AddNode(net, node)
  \/ \E edge \in EdgeInputs : AddEdge(net, edge)
  \/ \E crash_data \in CrashInputs : AddCrash(net, crash_data)
  \/ CalculateAllRiskScores(net)

Next ==
  \/ \E net \in Networks, node \in NodeInputs : AddNode(net, node)
  \/ \E net \in Networks, edge \in EdgeInputs : AddEdge(net, edge)
  \/ \E net \in Networks, crash_data \in CrashInputs : AddCrash(net, crash_data)
  \/ \E net \in Networks : CalculateAllRiskScores(net)
  \/ \E scenario_name \in ScenarioNames, scenario \in ScenarioInputs :
       ApplyScenario(scenario_name, scenario)

Spec == Init /\ [][Next]_vars

(***************************************************************************)
(* SpecCrash: one call of add_crash or of find_nearest_edge on a network   *)
(* built by add_node and add_edge.                                         *)
(***************************************************************************)
RECURSIVE AddNodes(_, _, _)
AddNodes(h, net, nodes) ==
  IF nodes = << >> THEN h
  ELSE AddNodes(add_node(h, net, Head(nodes)), net, Tail(nodes))

RECURSIVE AddEdges(_, _, _)
AddEdges(h, net, edges) ==
  IF edges = << >> THEN h
  ELSE AddEdges(add_edge(h, net, Head(edges)), net, Tail(edges))

\* the heap of a network with these nodes and edges, added in this order
NetworkOf(nodes, edges) ==
  AddEdges(AddNodes(EmptyHeap, BaselineAddress, nodes), BaselineAddress, edges)

\* the valid ranges of latitude and longitude (90 and 180 degrees), and a
\* longitude of 181 degrees
LatBound == 90 * (MetersPerDegree \div 10)
LonBound == 180 * (MetersPerDegree \div 10)
FarLon == 181 * (MetersPerDegree \div 10)

NearNetworks ==
  { EmptyHeap,
    OneEdgeHeap,
    TwoEdgeHeap,
    NetworkOf(<<IntersectionNode("A", 0, 1), IntersectionNode("B", 0, 5)>>,
              <<StreetEdge("e1", "A", "B")>>),
    NetworkOf(<<IntersectionNode("A", 1, 0), IntersectionNode("B", 6, 0)>>,
              <<StreetEdge("e1", "A", "B")>>),
    NetworkOf(<<NodeA, NodeB, IntersectionNode("C", 9, 9)>>,
              <<StreetEdge("e3", "B", "C"), StreetEdge("e1", "A", "B")>>),
    NetworkOf(<<NodeA, NodeB>>,
              <<StreetEdge("e2", "A", "Z"), StreetEdge("e1", "A", "B")>>),
    NetworkOf(<<NodeA>>, <<StreetEdge("e2", "A", "Z")>>) }

FarNetworks ==
  { NetworkOf(<<IntersectionNode("A", 1, FarLon + 1),
                IntersectionNode("B", 1, FarLon + 5)>>,
              <<StreetEdge("e1", "A", "B")>>) }

NearCrashes ==
  { [lat |-> lat, lon |-> lon, fatal |-> fatal] :
      lat \in {0, 1, 2, 6, 7, 11, 12}, lon \in {0, 3, 7}, fatal \in BOOLEAN }
    \cup { [lat |-> 1, lon |-> 3], [lat |-> 7, lon |-> 3],
           [lon |-> 3, fatal |-> TRUE], [lat |-> 1, fatal |-> TRUE],
           [fatal |-> FALSE] }

FarCrashes ==
  { [lat |-> 2, lon |-> FarLon + 3, fatal |-> TRUE],
    [lat |-> 9, lon |-> FarLon + 3, fatal |-> FALSE] }

\* the default of max_distance_meters (line 215) and the threshold of
\* add_crash (line 209)
MaxDistanceInputs == {50, 100}

InitCrash ==
  /\ \/ heap \in NearNetworks /\ obj \in NearCrashes
     \/ heap \in FarNetworks /\ obj \in FarCrashes
  /\ baseline = BaselineAddress
  /\ scenarios = << >>
  /\ ops = 0
  /\ pc = "call"
  /\ criteria = 0
  /\ ret = "None"

CallAddCrash ==
  /\ pc = "call"
  /\ heap' = add_crash(heap, baseline, obj)
  /\ pc' = "done"
  /\ UNCHANGED <<baseline, scenarios, ops, obj, criteria, ret>>

CallFindNearestEdge(max_distance_meters) ==
  /\ pc = "call"
  /\ "lat" \in DOMAIN obj /\ "lon" \in DOMAIN obj
  /\ criteria' = max_distance_meters
  /\ LET nearest == find_nearest_edge(heap, baseline, obj.lat, obj.lon,
                                      max_distance_meters)
     IN  ret' = IF nearest = 0 THEN "None" ELSE heap[nearest].id
  /\ pc' = "found"
  /\ UNCHANGED <<netVars, obj>>

NextCrash ==
  \/ CallAddCrash
  \/ \E max_distance_meters \in MaxDistanceInputs :
       CallFindNearestEdge(max_distance_meters)

SpecCrash == InitCrash /\ [][NextCrash]_vars

(***************************************************************************)
(* SpecApply: InterventionSimulator(baseline_network) and one call of      *)
(* apply_scenario.                                                         *)
(***************************************************************************)
stroad_conversion ==
  [modifications |-> <<
     [type |-> "stroad_fix",
      filter |-> << <<"is_stroad", PyBool(TRUE)>> >>,
      change |-> << <<"speed_limit_mph", PyNum(30)>>,
                    <<"design_speed_mph", PyNum(30)>>,
                    <<"lane_width_feet", PyNum(10)>>,
                    <<"has_buffer", PyBool(TRUE)>>,
                    <<"buffer_width_feet", PyNum(8)>>,
                    <<"is_stroad", PyBool(FALSE)>> >>] >>]

comprehensive_vision_zero ==
  [modifications |-> <<
     [type |-> "speed_limit",
      filter |-> << <<"functional_class", PyList(<<PyNum(6), PyNum(7)>>)>> >>,
      change |-> << <<"speed_limit_mph", PyNum(20)>>,
                    <<"design_speed_mph", PyNum(20)>> >>],
     [type |-> "speed_limit",
      filter |-> << <<"functional_class",
                      PyList(<<PyNum(2), PyNum(3), PyNum(4)>>)>> >>,
      change |-> << <<"speed_limit_mph", PyNum(30)>>,
                    <<"design_speed_mph", PyNum(30)>> >>],
     [type |-> "sidewalk",
      filter |-> << <<"has_sidewalk_north", PyBool(FALSE)>>,
                    <<"has_sidewalk_south", PyBool(FALSE)>> >>,
      change |-> << <<"has_sidewalk_north", PyBool(TRUE)>>,
                    <<"has_sidewalk_south", PyBool(TRUE)>>,
                    <<"sidewalk_width_feet", PyNum(6)>> >>],
     [type |-> "lighting",
      filter |-> << <<"lighting_quality",
                      PyList(<<PyStr("none"), PyStr("poor")>>)>> >>,
      change |-> << <<"lighting_quality", PyStr("adequate")>> >>],
     [type |-> "stroad_fix",
      filter |-> << <<"is_stroad", PyBool(TRUE)>> >>,
      change |-> << <<"speed_limit_mph", PyNum(30)>>,
                    <<"lane_width_feet", PyNum(10)>>,
                    <<"has_buffer", PyBool(TRUE)>>,
                    <<"buffer_width_feet", PyNum(8)>>,
                    <<"is_stroad", PyBool(FALSE)>> >>] >>]

\* an edge modification whose filter names an attribute no element has
missing_attribute ==
  [modifications |-> <<
     [type |-> "lighting",
      filter |-> << <<"surface", PyStr("gravel")>> >>,
      change |-> << <<"lighting_quality", PyStr("good")>> >>] >>]

\* an edge modification whose filter names an attribute of nodes, after a
\* clause every edge passes
node_attribute_on_edges ==
  [modifications |-> <<
     [type |-> "speed_limit",
      filter |-> << <<"speed_limit_mph", PyNum(0)>>,
                    <<"has_signals", PyBool(FALSE)>> >>,
      change |-> << <<"speed_limit_mph", PyNum(20)>> >>] >>]

\* a node modification whose filter names an attribute of edges
edge_attribute_on_nodes ==
  [modifications |-> <<
     [type |-> "intersection_upgrade",
      filter |-> << <<"lanes", PyNum(0)>> >>,
      change |-> << <<"has_refuge_island", PyBool(TRUE)>> >>] >>]

\* a modification with a missing attribute followed by Scenario 2's
missing_then_speed ==
  [modifications |-> missing_attribute.modifications \o Scenario2.modifications]

\* a change that assigns risk_score and the crash counters
assigns_score ==
  [modifications |-> <<
     [type |-> "traffic_calming",
      filter |-> << >>,
      change |-> << <<"risk_score", PyNum(990)>>,
                    <<"crash_count", PyNum(3)>>,
                    <<"crash_fatality_count", PyNum(1)>> >>] >>]

\* modifications whose filters read what earlier ones wrote
chained ==
  [modifications |-> <<
     [type |-> "lighting",
      filter |-> << <<"lighting_quality", PyStr("none")>> >>,
      change |-> << <<"lighting_quality", PyStr("poor")>> >>],
     [type |-> "lighting",
      filter |-> << <<"lighting_quality", PyStr("poor")>> >>,
      change |-> << <<"lighting_quality", PyStr("good")>> >>],
     [type |-> "speed_limit",
      filter |-> << <<"speed_limit_mph", PyNum(45)>> >>,
      change |-> << <<"speed_limit_mph", PyNum(30)>> >>],
     [type |-> "traffic_calming",
      filter |-> << <<"speed_limit_mph", PyNum(35)>> >>,
      change |-> << <<"lanes", PyNum(2)>> >>] >>]

\* changes that name attributes their targets do not have
unknown_change ==
  [modifications |-> <<
     [type |-> "speed_limit",
      filter |-> << >>,
      change |-> << <<"surface", PyStr("asphalt")>>,
                    <<"speed_limit_mph", PyNum(20)>> >>],
     [type |-> "intersection_upgrade",
      filter |-> << <<"crash_count", PyNum(2)>> >>,
      change |-> << <<"lanes", PyNum(2)>>,
                    <<"has_refuge_island", PyBool(TRUE)>> >>] >>]

ApplyScenarioInputs ==
  ScenarioInputs \cup
    { stroad_conversion, comprehensive_vision_zero, missing_attribute,
      node_attribute_on_edges, edge_attribute_on_nodes, missing_then_speed,
      assigns_score, chained, unknown_change }

ApplyNetworks ==
  { EmptyHeap, OneEdgeHeap, TwoEdgeHeap } \cup
  { NetworkOf(<<[NodeA EXCEPT !.crash_count = cr], NodeB>>,
              <<[Scenario1Edge EXCEPT !.speed_limit_mph = sp,
                                      !.functional_class = fc,
                                      !.lighting_quality = lq,
                                      !.is_stroad = st,
                                      !.risk_score = rs],
                EdgeE2>>) :
      cr \in {0, 2}, sp \in {25, 45}, fc \in {3, 7}, lq \in {"none", "good"},
      st \in BOOLEAN, rs \in {0, 50} }

InitApply ==
  /\ heap \in ApplyNetworks
  /\ baseline = BaselineAddress
  /\ scenarios = << >>
  /\ ops = 0
  /\ pc = "call"
  /\ obj = NoObj
  /\ criteria \in ApplyScenarioInputs
  /\ ret = "None"

\* ret: the address of the network returned (0 when none is) and the
\* exception raised ("" when none is)
CallApplyScenario(scenario_name) ==
  /\ pc = "call"
  /\ LET r == apply_scenario(heap, baseline, scenarios, scenario_name, criteria)
     IN  /\ heap' = r.h
         /\ scenarios' = r.scenarios
         /\ ret' = [network |-> IF r.err = ""
                                   THEN DictGet(r.scenarios, scenario_name)
                                   ELSE 0,
                     raised |-> r.err]
  /\ pc' = "done"
  /\ UNCHANGED <<baseline, ops, obj, criteria>>

NextApply == \E scenario_name \in ScenarioNames : CallApplyScenario(scenario_name)

SpecApply == InitApply /\ [][NextApply]_vars

(***************************************************************************)
(* InterventionSimulator.compare_scenarios.  A statistic is compared as a  *)
(* quotient <<dividend, divisor>>; the key f"{key}_change_pct" is the pair *)
(* <<key, "change_pct">> and f"{key}_absolute" the pair <<key, "absolute">>.*)
(***************************************************************************)
\* the keys of the dict of get_statistics, in its order (lines 413-424)
StatKeys ==
  << "node_count", "edge_count", "total_length_km", "total_crashes",
     "total_fatalities", "edges_with_sidewalks", "sidewalk_coverage_pct",
     "edges_with_adequate_lighting", "lighting_coverage_pct", "stroad_count",
     "high_speed_edge_count", "avg_risk_score" >>

QuotientKeys ==
  { "total_length_km", "sidewalk_coverage_pct", "lighting_coverage_pct",
    "avg_risk_score" }

Quotient(stats, key) ==
  IF key \in QuotientKeys THEN stats[key] ELSE <<stats[key], 1>>

\* baseline_val > 0, for a positive divisor
IsPositive(q) == q[1] > 0

\* ((scenario_val - baseline_val) / baseline_val) * 100
PctChange(scenario_val, baseline_val) ==
  << (scenario_val[1] * baseline_val[2] - baseline_val[1] * scenario_val[2]) * 100,
     scenario_val[2] * baseline_val[1] >>

\* lines 324-334: the dict `changes` after the keys from position i on
RECURSIVE ChangesFrom(_, _, _, _)
ChangesFrom(baseline_stats, scenario_stats, i, changes) ==
  IF i > Len(StatKeys) THEN changes
  ELSE LET key == StatKeys[i]
           baseline_val == Quotient(baseline_stats, key)
           scenario_val == Quotient(scenario_stats, key)
           c1 == IF IsPositive(baseline_val)
                   THEN DictSet(changes, <<key, "change_pct">>,
                                PctChange(scenario_val, baseline_val))
                   ELSE changes
       IN  ChangesFrom(baseline_stats, scenario_stats, i + 1,
                       DictSet(c1, <<key, "absolute">>, scenario_val))

\* lines 316-336: comparison['scenarios'] after the names from position i on
RECURSIVE CompareFrom(_, _, _, _, _)
CompareFrom(h, stored, baseline_stats, names, compared) ==
  IF names = << >> THEN compared
  ELSE IF ~DictHas(stored, Head(names))
    THEN CompareFrom(h, stored, baseline_stats, Tail(names), compared)
  ELSE CompareFrom(h, stored, baseline_stats, Tail(names),
         DictSet(compared, Head(names),
                 ChangesFrom(baseline_stats,
                             get_statistics(h, DictGet(stored, Head(names))),
                             1, << >>)))

PyNone == [t |-> "NoneType"]

compare_scenarios(h, base, stored, scenario_names) ==
  LET names == IF scenario_names.t = "NoneType"
                 THEN [i \in 1..Len(stored) |-> stored[i][1]]
                 ELSE scenario_names.v
      baseline_stats == get_statistics(h, base)
  IN  [ baseline |-> baseline_stats,
        scenarios |-> CompareFrom(h, stored, baseline_stats, names, << >>) ]

(***************************************************************************)
(* SpecReport: a simulator over a baseline, calls of apply_scenario, then  *)
(* one call of compare_scenarios, of get_statistics or of                  *)
(* calculate_risk_score.                                                   *)
(***************************************************************************)
\* a scored network with lengths and crashes
MeasuredHeap ==
  calculate_all_risk_scores(
    NetworkOf(<<NodeA, NodeB>>,
              <<[Scenario1Edge EXCEPT !.length_meters = 120,
                                      !.crash_count = 2,
                                      !.crash_fatality_count = 1],
                [EdgeE2 EXCEPT !.length_meters = 80]>>),
    BaselineAddress)

\* StreetEdge('e1', 'A', 'B', length_meters=-100.0, ...)
NegativeLengthHeap ==
  NetworkOf(<<NodeA, NodeB>>, <<[Scenario1Edge EXCEPT !.length_meters = -100]>>)

\* nodes and no edge
NodesOnlyHeap == NetworkOf(<<NodeA, NodeB>>, << >>)

ReportNetworks ==
  { EmptyHeap, NodesOnlyHeap, OneEdgeHeap, TwoEdgeHeap, MeasuredHeap,
    NegativeLengthHeap }

ReportScenarios == { complete_sidewalks, assigns_score }

ScenarioNameLists ==
  { PyNone, PyList(<< >>), PyList(<<"s1">>), PyList(<<"s2", "s1">>),
    PyList(<<"s1", "s3">>) }

InitReport ==
  /\ heap \in ReportNetworks
  /\ baseline = BaselineAddress
  /\ scenarios = << >>
  /\ ops = 0
  /\ pc = "idle"
  /\ obj = NoObj
  /\ criteria = NoCriteria
  /\ ret = 0

\* criteria: the argument; ret: the dict returned
CallCompareScenarios(scenario_names) ==
  /\ pc = "idle"
  /\ pc' = "compared"
  /\ criteria' = scenario_names
  /\ ret' = compare_scenarios(heap, baseline, scenarios, scenario_names)
  /\ UNCHANGED <<netVars, obj>>

\* criteria: the network; ret: the dict returned
CallGetStatistics(net) ==
  /\ pc = "idle"
  /\ pc' = "counted"
  /\ criteria' = net
  /\ ret' = get_statistics(heap, net)
  /\ UNCHANGED <<netVars, obj>>

\* criteria: the address of the edge; ret: the score returned
CallCalculateRiskScore(edge) ==
  /\ pc = "idle"
  /\ pc' = "scored"
  /\ criteria' = edge
  /\ heap' = [heap EXCEPT ![edge] = calculate_risk_score(@)]
  /\ ret' = calculate_risk_score(heap[edge]).risk_score
  /\ UNCHANGED <<baseline, scenarios, ops, obj>>

NextReport ==
  \/ /\ pc = "idle"
     /\ \E scenario_name \in ScenarioNames, scenario \in ReportScenarios :
          ApplyScenario(scenario_name, scenario)
  \/ \E scenario_names \in ScenarioNameLists :
       CallCompareScenarios(scenario_names)
  \/ \E net \in Networks : CallGetStatistics(net)
  \/ \E net \in Networks :
       \E edge \in Range(DictValues(EdgeItems(heap, net))) :
         CallCalculateRiskScore(edge)

SpecReport == InitReport /\ [][NextReport]_vars

(***************************************************************************)
(* StreetNetwork.export_to_file and load_from_file.  The file holds the    *)
(* JSON object of line 361: under 'nodes' and 'edges' the items            *)
(* <<identifier, asdict(element)>> in dict order (asdict copies a node's   *)
(* connected_edges list by value), under 'crashes' the crash log.          *)
(***************************************************************************)
export_to_file(h, net) ==
  [ nodes |-> [i \in 1..Len(NodeItems(h, net)) |->
                 <<NodeItems(h, net)[i][1], Deref(h, NodeItems(h, net)[i][2])>>],
    edges |-> [i \in 1..Len(EdgeItems(h, net)) |->
                 <<EdgeItems(h, net)[i][1], h[EdgeItems(h, net)[i][2]]>>],
    crashes |-> CrashLog(h, net) ]

\* lines 380-386: IntersectionNode(**node_data) and StreetEdge(**edge_data)
\* for the values of the two objects of the file, each added to the network
LoadNodes(h, net, items) ==
  AddNodes(h, net, [i \in 1..Len(items) |-> items[i][2]])

LoadEdges(h, net, items) ==
  AddEdges(h, net, [i \in 1..Len(items) |-> items[i][2]])

\* [h, network]: the heap with the loaded network and its address
load_from_file(h, data) ==
  LET h0 == NewStreetNetwork(h)
      network == Len(h0)
      h1 == LoadEdges(LoadNodes(h0, network, data.nodes), network, data.edges)
      h2 == Append(h1, [items |-> data.crashes])
  IN  [h |-> [h2 EXCEPT ![network].crashes = Len(h2)], network |-> network]

(***************************************************************************)
(* SpecBuild: a network built by add_node, add_edge and add_crash, then    *)
(* exported to a file (kept in obj) and loaded from it (ret is the address *)
(* of the loaded network).                                                 *)
(***************************************************************************)
InitBuild == Init

ExportToFile ==
  /\ pc = "idle"
  /\ obj' = export_to_file(heap, baseline)
  /\ pc' = "exported"
  /\ UNCHANGED <<netVars, criteria, ret>>

LoadFromFile ==
  /\ pc = "exported"
  /\ LET r == load_from_file(heap, obj)
     IN  /\ heap' = r.h
         /\ ret' = r.network
  /\ pc' = "loaded"
  /\ UNCHANGED <<baseline, scenarios, ops, obj, criteria>>

NextBuild ==
  \/ pc = "idle" /\ \E node \in NodeInputs : AddNode(baseline, node)
  \/ pc = "idle" /\ \E edge \in EdgeInputs : AddEdge(baseline, edge)
  \/ pc = "idle" /\ \E crash_data \in CrashInputs : AddCrash(baseline, crash_data)
  \/ ExportToFile
  \/ LoadFromFile

SpecBuild == InitBuild /\ [][NextBuild]_vars

(***************************************************************************)
(* Properties of calculate_risk_score (SpecScore)                          *)
(***************************************************************************)
ClaimedSum(e) ==
    (CASE e.speed_limit_mph >= 45 -> 100
       [] e.speed_limit_mph >= 35 /\ e.speed_limit_mph < 45 -> 70
       [] e.speed_limit_mph >= 25 /\ e.speed_limit_mph < 35 -> 30
       [] OTHER -> 10)
  + (IF e.lane_width_feet >= 12 THEN 20 ELSE 0)
  + (CASE e.lanes >= 6 -> 50
       [] e.lanes \in {4, 5} -> 30
       [] e.lanes = 3 -> 15
       [] OTHER -> 0)
  + (IF e.is_stroad THEN 80 ELSE 0)
  + (CASE ~(e.has_sidewalk_north \/ e.has_sidewalk_south) -> 50
       [] (e.has_sidewalk_north \/ e.has_sidewalk_south)
            /\ e.sidewalk_width_feet < 5 -> 20
       [] OTHER -> 0)
  + (IF e.has_buffer THEN 0 ELSE 30)
  + (CASE e.lighting_quality = "none" -> 60
       [] e.lighting_quality = "poor" -> 40
       [] OTHER -> 0)
  + (CASE e.vehicle_aadt > 20000 -> 30
       [] e.vehicle_aadt > 10000 /\ e.vehicle_aadt <= 20000 -> 20
       [] OTHER -> 0)
  - (IF e.has_bike_lane /\ e.bike_lane_protected THEN 30 ELSE 0)
  - (IF e.has_street_trees THEN 20 ELSE 0)
  - (IF e.has_buffer /\ e.buffer_width_feet >= 8 THEN 20 ELSE 0)
  + 20 * e.crash_count
  + 100 * e.crash_fatality_count

\* C6: calculate_risk_score returns max(0, S), S the sum of the speed tier,
\* the lane width, lane count, stroad, sidewalk, buffer, lighting and traffic
\* terms, minus the three mitigations, plus 2 per crash and 10 per fatality;
\* the result is stored in risk_score and is never negative.
C6_RiskScoreFormula ==
  pc = "done" =>
    /\ ret = (IF ClaimedSum(obj) < 0 THEN 0 ELSE ClaimedSum(obj))
    /\ ret >= 0
    /\ obj.risk_score = ret

\* a scored edge whose sum of terms is negative (10 - 30 - 20 - 20)
C6_Witness ==
  /\ pc = "done"
  /\ ret = 0
  /\ obj.speed_limit_mph = 20
  /\ obj.has_street_trees /\ obj.has_bike_lane /\ obj.bike_lane_protected
  /\ obj.has_buffer /\ obj.buffer_width_feet = 8
  /\ obj.lighting_quality = "good"

IsScenario1Edge(e) == [e EXCEPT !.risk_score = 0] = Scenario1Edge

\* C7 as stated: the edge of Scenario 1 (speed 45, 4 lanes, no sidewalk,
\* lighting "none", no crashes, defaults elsewhere) scores exactly 27.0.
C7_Scenario1Scores27 ==
  (pc = "done" /\ IsScenario1Edge(obj)) => ret = 270

\* C7 amended: the edge of Scenario 1 scores exactly 29.0, the default lane
\* width of 12 ft adding 2.0 to the five terms the scenario lists.
C7_Scenario1Scores29 ==
  (pc = "done" /\ IsScenario1Edge(obj)) => (ret = 290 /\ obj.risk_score = 290)

C7_Witness == pc = "done" /\ IsScenario1Edge(obj) /\ obj.lane_width_feet = 12

\* the score of edge e with speed limit sp, and with sidewalks n, s of width w
ScoreAtSpeed(e, sp) ==
  calculate_risk_score([e EXCEPT !.speed_limit_mph = sp]).risk_score
ScoreWithSidewalk(e, n, s, w) ==
  calculate_risk_score([e EXCEPT !.has_sidewalk_north = n,
                                 !.has_sidewalk_south = s,
                                 !.sidewalk_width_feet = w]).risk_score

SpeedProbes == {0, 20, 24, 25, 30, 34, 35, 44, 45, 46, 65}
WidthProbes == {0, 4, 5, 6}

\* C18: of two edges that agree on every attribute except speed_limit_mph,
\* the one with the higher speed limit has a risk score >= the other's.
C18_SpeedMonotone ==
  pc = "done" =>
    \A sp \in SpeedProbes :
      /\ sp >= obj.speed_limit_mph => ScoreAtSpeed(obj, sp) >= ret
      /\ sp <= obj.speed_limit_mph => ScoreAtSpeed(obj, sp) <= ret

\* an edge at 45 mph that scores more than the same edge at 35 mph
C18_Witness ==
  /\ pc = "done"
  /\ obj.speed_limit_mph = 45
  /\ ScoreAtSpeed(obj, 35) < ret

\* C19: for an edge with no sidewalk on either side, setting
\* has_sidewalk_north and/or has_sidewalk_south, with any sidewalk width and
\* all else fixed, gives a risk score <= the score before the change.
C19_SidewalkMonotone ==
  (pc = "done" /\ ~obj.has_sidewalk_north /\ ~obj.has_sidewalk_south) =>
    \A n \in BOOLEAN, s \in BOOLEAN, w \in WidthProbes :
      (n \/ s) => ScoreWithSidewalk(obj, n, s, w) <= ret

\* an edge without sidewalks that scores more than with a narrow one
C19_Witness ==
  /\ pc = "done"
  /\ ~obj.has_sidewalk_north /\ ~obj.has_sidewalk_south
  /\ ScoreWithSidewalk(obj, TRUE, FALSE, 4) < ret

(***************************************************************************)
(* Properties of _matches_filter (SpecFilter)                              *)
(***************************************************************************)
ClauseKey(i) == criteria[i][1]
ClauseValue(i) == criteria[i][2]

\* C9: a scalar numeric filter value X on a numeric attribute A does not
\* match an element with A < X, and a filter made of that clause alone
\* matches exactly the elements with A >= X.
C9_NumericThreshold ==
  pc = "done" =>
    \A i \in 1..Len(criteria) :
      (ClauseValue(i).t = "num" /\ ClauseKey(i) \in DOMAIN obj
         /\ AttrType(ClauseKey(i)) = "num") =>
        /\ obj[ClauseKey(i)] < ClauseValue(i).v => ret # "True"
        /\ Len(criteria) = 1 =>
             (ret = "True" <=> obj[ClauseKey(i)] >= ClauseValue(i).v)

\* speed_limit_mph: 45 matches an edge with speed limit exactly 45
C9_Witness ==
  /\ pc = "done"
  /\ criteria = << <<"speed_limit_mph", PyNum(45)>> >>
  /\ "speed_limit_mph" \in DOMAIN obj
  /\ obj.speed_limit_mph = 45
  /\ ret = "True"

\* C10: a scalar string or boolean filter value requires equality: an element
\* whose attribute differs from the value is not matched, and a filter made
\* of that clause alone matches exactly the elements whose attribute equals
\* the value.
C10_ScalarEquality ==
  pc = "done" =>
    \A i \in 1..Len(criteria) :
      (ClauseValue(i).t \in {"str", "bool"} /\ ClauseKey(i) \in DOMAIN obj
         /\ AttrType(ClauseKey(i)) = ClauseValue(i).t) =>
        /\ obj[ClauseKey(i)] # ClauseValue(i).v => ret # "True"
        /\ Len(criteria) = 1 =>
             (ret = "True" <=> obj[ClauseKey(i)] = ClauseValue(i).v)

\* the attribute of obj that clause i names is one of the clause's candidates
Listed(i) ==
  \E j \in 1..Len(ClauseValue(i).v) :
    PyEq(GetAttr(obj, ClauseKey(i)), ClauseValue(i).v[j])

\* every candidate of clause i has type t
CandidatesAre(i, t) ==
  /\ Len(ClauseValue(i).v) > 0
  /\ \A j \in 1..Len(ClauseValue(i).v) : ClauseValue(i).v[j].t = t

\* C11: a list-valued filter matches an element only when the element's
\* attribute is one of the listed values (functional_class: [2, 3] matches
\* no edge of functional class 4, 6 or 7).
C11_ListMembership ==
  pc = "done" =>
    \A i \in 1..Len(criteria) :
      (ClauseValue(i).t = "list" /\ ClauseKey(i) \in DOMAIN obj) =>
        (ret = "True" => Listed(i))

Candidates ==
  { EdgeItems(heap, baseline)[i][2] : i \in
      { j \in 1..Len(EdgeItems(heap, baseline)) :
          /\ DictHas(NodeItems(heap, baseline),
                     heap[EdgeItems(heap, baseline)[j][2]].from_node)
          /\ DictHas(NodeItems(heap, baseline),
                     heap[EdgeItems(heap, baseline)[j][2]].to_node) } }

\* the square of the distance of p to the segment from a to b: to the foot
\* of the perpendicular when it falls on the segment, else to the nearer end
SegmentDistance2(p, a, b) ==
  LET len2 == (b[1] - a[1]) * (b[1] - a[1]) + (b[2] - a[2]) * (b[2] - a[2])
      dot == (p[1] - a[1]) * (b[1] - a[1]) + (p[2] - a[2]) * (b[2] - a[2])
      cross == (p[1] - a[1]) * (b[2] - a[2]) - (p[2] - a[2]) * (b[1] - a[1])
      pa2 == (p[1] - a[1]) * (p[1] - a[1]) + (p[2] - a[2]) * (p[2] - a[2])
      pb2 == (p[1] - b[1]) * (p[1] - b[1]) + (p[2] - b[2]) * (p[2] - b[2])
  IN  IF len2 = 0 \/ dot <= 0 THEN <<pa2, 1>>
      ELSE IF dot >= len2 THEN <<pb2, 1>>
      ELSE <<cross * cross, len2>>

NodeAt(node_id) == heap[DictGet(NodeItems(heap, baseline), node_id)]

\* the distance of the point of obj to the edge at address a
DistanceTo(a) ==
  SegmentDistance2(<<obj.lat, obj.lon>>,
                   <<NodeAt(heap[a].from_node).lat, NodeAt(heap[a].from_node).lon>>,
                   <<NodeAt(heap[a].to_node).lat, NodeAt(heap[a].to_node).lon>>)

\* q1 < q2 and q <= m * m / 100, for quotients with positive denominators
Less(q1, q2) == q1[1] * q2[2] < q2[1] * q1[2]
WithinMeters(q, m) == 100 * q[1] <= m * m * q[2]

HasCoordinates == "lat" \in DOMAIN obj /\ "lon" \in DOMAIN obj
InBounds ==
  /\ -LatBound <= obj.lat /\ obj.lat <= LatBound
  /\ -LonBound <= obj.lon /\ obj.lon <= LonBound
MarkedFatal == "fatal" \in DOMAIN obj /\ obj.fatal

\* C13: for a crash record with latitude and longitude present and within
\* bounds (0 included) and some candidate edge within 50 m, add_crash adds 1
\* to the crash_count of a nearest candidate edge, and 1 to its
\* crash_fatality_count exactly when the record is marked fatal.
C13_AddCrashSuccess ==
  [][(/\ CallAddCrash
      /\ HasCoordinates
      /\ InBounds
      /\ \E a \in Candidates : WithinMeters(DistanceTo(a), 50)) =>
       \E a \in Candidates :
         /\ \A b \in Candidates : ~Less(DistanceTo(b), DistanceTo(a))
         /\ heap'[a].crash_count = heap[a].crash_count + 1
         /\ heap'[a].crash_fatality_count =
              heap[a].crash_fatality_count + (IF MarkedFatal THEN 1 ELSE 0)
    ]_vars

\* C14: for a crash record with a missing coordinate, with latitude or
\* longitude out of bounds, or with no candidate edge within 50 m, add_crash
\* appends the record to the crash log and leaves the crash_count and
\* crash_fatality_count of every edge unchanged.
C14_AddCrashFailure ==
  [][(/\ CallAddCrash
      /\ \/ ~HasCoordinates
         \/ HasCoordinates /\ ~InBounds
         \/ HasCoordinates
              /\ \A a \in Candidates : ~WithinMeters(DistanceTo(a), 50)) =>
       /\ CrashLog(heap', baseline) = Append(CrashLog(heap, baseline), obj)
       /\ EdgeItems(heap', baseline) = EdgeItems(heap, baseline)
       /\ \A i \in 1..Len(EdgeItems(heap, baseline)) :
            LET a == EdgeItems(heap, baseline)[i][2]
            IN  /\ heap'[a].crash_count = heap[a].crash_count
                /\ heap'[a].crash_fatality_count = heap[a].crash_fatality_count
    ]_vars

\* C15: find_nearest_edge returns a candidate edge (both endpoints are nodes
\* of the network) whose distance to the query point, measured to the
\* nearest point on the segment, is the minimum over the candidates and is
\* <= max_distance_meters; it returns None when no candidate is within
\* max_distance_meters.
C15_NearestEdge ==
  pc = "found" =>
    /\ ret # "None" =>
         \E a \in Candidates :
           /\ heap[a].id = ret
           /\ \A b \in Candidates : ~Less(DistanceTo(b), DistanceTo(a))
           /\ WithinMeters(DistanceTo(a), criteria)
    /\ ret = "None" =>
         \A a \in Candidates : ~WithinMeters(DistanceTo(a), criteria)

\* the single edge from (1, 1) to (1, 5) and a point 50 m off its midpoint
C15_Witness ==
  /\ pc = "found"
  /\ heap = OneEdgeHeap
  /\ obj.lat = 6 /\ obj.lon = 3
  /\ criteria = 50
  /\ ret = "e1"

\* the positions, in insertion order, of the candidate edges at minimal
\* distance from the point of obj
MinimalPositions ==
  { i \in 1..Len(EdgeItems(heap, baseline)) :
      /\ EdgeItems(heap, baseline)[i][2] \in Candidates
      /\ \A b \in Candidates :
           ~Less(DistanceTo(b), DistanceTo(EdgeItems(heap, baseline)[i][2])) }

\* C26: when several candidate edges are at the same minimal distance,
\* find_nearest_edge returns the one that comes first in the insertion order
\* of the edges; the call leaves the network as it is, and a call with the
\* same arguments after it returns the same edge.
C26_TieBreak ==
  [][\A max_distance_meters \in MaxDistanceInputs :
       CallFindNearestEdge(max_distance_meters) =>
         /\ ret' # "None" =>
              \E i \in MinimalPositions :
                /\ EdgeItems(heap, baseline)[i][1] = ret'
                /\ \A j \in MinimalPositions : i <= j
         /\ heap' = heap /\ baseline' = baseline
         /\ LET again == find_nearest_edge(heap', baseline', obj.lat, obj.lon,
                                           max_distance_meters)
            IN  ret' = IF again = 0 THEN "None" ELSE heap'[again].id
    ]_vars

\* edges e1 and e2 join the same two nodes, so they are at the same distance
\* from every point: e1, inserted first, is returned
C26_Witness ==
  /\ pc = "found"
  /\ heap = TwoEdgeHeap
  /\ Cardinality(MinimalPositions) = 2
  /\ ret = "e1"

(***************************************************************************)
(* Properties of the networks and the simulator (Spec)                     *)
(***************************************************************************)
\* what a network holds: its nodes with their connected_edges lists, its
\* edges and its crash log, by value
NetValue(h, net) ==
  [ nodes |-> [i \in 1..Len(NodeItems(h, net)) |->
                 <<NodeItems(h, net)[i][1], Deref(h, NodeItems(h, net)[i][2])>>],
    edges |-> [i \in 1..Len(EdgeItems(h, net)) |->
                 <<EdgeItems(h, net)[i][1], h[EdgeItems(h, net)[i][2]]>>],
    crashes |-> CrashLog(h, net) ]

\* the edge stored under edge_id
EdgeOf(h, net, edge_id) == h[DictGet(EdgeItems(h, net), edge_id)]
HasEdge(h, net, edge_id) == DictHas(EdgeItems(h, net), edge_id)

\* C1: apply_scenario leaves the baseline unchanged: the nodes with their
\* connected_edges, the edges with their counters and scores, the crash log
\* and get_statistics() are the same after the call as before it.
C1_Isolation ==
  [][\A scenario_name \in ScenarioNames, scenario \in ScenarioInputs :
       ApplyScenario(scenario_name, scenario) =>
         /\ baseline' = baseline
         /\ NetValue(heap', baseline') = NetValue(heap, baseline)
         /\ get_statistics(heap', baseline') = get_statistics(heap, baseline)
    ]_vars

\* a stored result in which the speed modification changed edge e1, the
\* baseline's e1 still at 45
C1_Witness ==
  \E i \in 1..Len(scenarios) :
    /\ HasEdge(heap, scenarios[i][2], "e1")
    /\ HasEdge(heap, baseline, "e1")
    /\ EdgeOf(heap, scenarios[i][2], "e1").speed_limit_mph = 30
    /\ EdgeOf(heap, baseline, "e1").speed_limit_mph = 45

\* C2: a call of add_node, add_edge, add_crash or calculate_all_risk_scores
\* on one network (the baseline or a stored scenario result) leaves every
\* other network's nodes, edges, connected_edges lists and crash log
\* unchanged.
C2_CloneIndependence ==
  [][\A net \in Networks :
       Mutate(net) =>
         \A other \in Networks \ {net} :
           NetValue(heap', other) = NetValue(heap, other)
    ]_vars

\* a stored result, and a baseline that got node C and an edge on node A
\* after the result was made
C2_Witness ==
  \E i \in 1..Len(scenarios) :
    /\ DictHas(NodeItems(heap, baseline), "C")
    /\ ~DictHas(NodeItems(heap, scenarios[i][2]), "C")
    /\ DictHas(NodeItems(heap, scenarios[i][2]), "A")
    /\ HasEdge(heap, baseline, "e3")
    /\ ~HasEdge(heap, scenarios[i][2], "e3")

\* the stored result of the call apply_scenario(scenario_name, scenario)
\* made in heap h with the results `stored`
ResultOf(h, base, stored, scenario_name, scenario) ==
  LET r == apply_scenario(h, base, stored, scenario_name, scenario)
  IN  NetValue(r.h, DictGet(r.scenarios, scenario_name))

\* C3: the network apply_scenario stores for a scenario is the one it stores
\* when no other scenario was applied before, and the call leaves the
\* results stored under other names as they are.
C3_ScenarioIndependence ==
  [][\A scenario_name \in ScenarioNames, scenario \in ScenarioInputs :
       (/\ ApplyScenario(scenario_name, scenario)
        /\ apply_scenario(heap, baseline, scenarios,
                          scenario_name, scenario).err = "") =>
         /\ DictHas(scenarios', scenario_name)
         /\ NetValue(heap', DictGet(scenarios', scenario_name))
              = ResultOf(heap, baseline, << >>, scenario_name, scenario)
         /\ \A i \in 1..Len(scenarios) :
              scenarios[i][1] # scenario_name =>
                /\ DictHas(scenarios', scenarios[i][1])
                /\ NetValue(heap', DictGet(scenarios', scenarios[i][1]))
                     = NetValue(heap, scenarios[i][2])
    ]_vars

\* two stored results of different scenarios: one with e1 slowed to 30 and
\* no sidewalk, one with e1 at 45 and sidewalks
C3_Witness ==
  /\ Len(scenarios) = 2
  /\ \E i, j \in 1..2 :
       /\ HasEdge(heap, scenarios[i][2], "e1")
       /\ HasEdge(heap, scenarios[j][2], "e1")
       /\ EdgeOf(heap, scenarios[i][2], "e1").speed_limit_mph = 30
       /\ ~EdgeOf(heap, scenarios[i][2], "e1").has_sidewalk_north
       /\ EdgeOf(heap, scenarios[j][2], "e1").speed_limit_mph = 45
       /\ EdgeOf(heap, scenarios[j][2], "e1").has_sidewalk_north

\* C17: a call of calculate_all_risk_scores gives every edge the score of
\* its attributes, whatever its risk_score was before, and a second call
\* right after it changes nothing.
C17_ScoringIdempotent ==
  [][\A net \in Networks :
       CalculateAllRiskScores(net) =>
         /\ calculate_all_risk_scores(heap', net) = heap'
         /\ \A i \in 1..Len(EdgeItems(heap, net)) :
              LET a == EdgeItems(heap, net)[i][2]
              IN  \A previous \in {0, 990} :
                    heap'[a].risk_score =
                      calculate_risk_score(
                        [heap[a] EXCEPT !.risk_score = previous]).risk_score
    ]_vars

\* the one-edge network of Scenario 1 after two calls in a row
C17_Witness ==
  /\ ops = 2
  /\ scenarios = << >>
  /\ heap = calculate_all_risk_scores(OneEdgeHeap, BaselineAddress)
  /\ EdgeOf(heap, baseline, "e1").risk_score = 290

\* C24: every stored edge with from_node or to_node equal to a node's
\* identifier is listed exactly once in that node's connected_edges.
C24_AdjacencyComplete ==
  \A net \in Networks :
    \A i \in 1..Len(NodeItems(heap, net)), j \in 1..Len(EdgeItems(heap, net)) :
      LET node == Deref(heap, NodeItems(heap, net)[i][2])
          edge == heap[EdgeItems(heap, net)[j][2]]
      IN  (edge.from_node = node.id \/ edge.to_node = node.id) =>
            Cardinality({ k \in 1..Len(node.connected_edges) :
                            node.connected_edges[k] = edge.id }) = 1

\* the values of a network's edges apart from the crash counters
WithoutCounters(edges) ==
  [i \in 1..Len(edges) |->
     <<edges[i][1],
       [edges[i][2] EXCEPT !.crash_count = 0, !.crash_fatality_count = 0]>>]

\* C28: a call of add_crash appends the record at the end of the crash log,
\* changes the crash counters of at most one edge and nothing else: no
\* node, no connected_edges list, no other edge attribute, no risk_score.
C28_AddCrashFrame ==
  [][\A net \in Networks, crash_data \in CrashInputs :
       AddCrash(net, crash_data) =>
         LET before == NetValue(heap, net)
             after == NetValue(heap', net)
         IN  /\ after.crashes = Append(before.crashes, crash_data)
             /\ after.nodes = before.nodes
             /\ WithoutCounters(after.edges) = WithoutCounters(before.edges)
             /\ Cardinality({ i \in 1..Len(before.edges) :
                                after.edges[i] # before.edges[i] }) <= 1
    ]_vars

\* a scored network with two records in its log, one of them counted on
\* edge e1, whose risk_score is still the one computed before
C28_Witness ==
  /\ Len(CrashLog(heap, baseline)) = 2
  /\ HasEdge(heap, baseline, "e1")
  /\ EdgeOf(heap, baseline, "e1").crash_count = 1
  /\ EdgeOf(heap, baseline, "e1").risk_score = 290

\* C29: every edge has 0 <= crash_fatality_count <= crash_count, and the sum
\* of crash_count over the edges of a network is <= the length of its crash
\* log.
C29_CrashCounters ==
  \A net \in Networks :
    /\ \A i \in 1..Len(EdgeItems(heap, net)) :
         LET e == heap[EdgeItems(heap, net)[i][2]]
         IN  0 <= e.crash_fatality_count /\ e.crash_fatality_count <= e.crash_count
    /\ get_statistics(heap, net).total_crashes <= Len(CrashLog(heap, net))

\* a fatal crash counted on edge e1 and a record counted on no edge
C29_Witness ==
  /\ HasEdge(heap, baseline, "e1")
  /\ EdgeOf(heap, baseline, "e1").crash_count = 1
  /\ EdgeOf(heap, baseline, "e1").crash_fatality_count = 1
  /\ Len(CrashLog(heap, baseline)) = 2
  /\ get_statistics(heap, baseline).total_crashes = 1

\* C4: every stored edge's from_node and to_node are keys of the node
\* collection of its network (add_edge refuses an edge with an unknown
\* endpoint).
C4_ReferentialIntegrity ==
  \A net \in Networks :
    \A i \in 1..Len(EdgeItems(heap, net)) :
      /\ DictHas(NodeItems(heap, net), heap[EdgeItems(heap, net)[i][2]].from_node)
      /\ DictHas(NodeItems(heap, net), heap[EdgeItems(heap, net)[i][2]].to_node)

\* C5: every edge identifier in a node's connected_edges is the identifier
\* of a stored edge whose from_node or to_node is that node.
C5_AdjacencySound ==
  \A net \in Networks :
    \A i \in 1..Len(NodeItems(heap, net)) :
      \A edge_id \in Range(Deref(heap, NodeItems(heap, net)[i][2]).connected_edges) :
        /\ HasEdge(heap, net, edge_id)
        /\ NodeItems(heap, net)[i][1] \in
             { EdgeOf(heap, net, edge_id).from_node,
               EdgeOf(heap, net, edge_id).to_node }

\* the one-edge network of Scenario 1
IsScenario1Network(h, net) ==
  /\ Len(EdgeItems(h, net)) = 1
  /\ HasEdge(h, net, "e1")
  /\ IsScenario1Edge(EdgeOf(h, net, "e1"))

\* the scores of the network are those of its attributes
Scored(h, net) == calculate_all_risk_scores(h, net) = h

\* C8 as stated: applying Scenario 2 (speed_limit_mph: 45 -> 30) to the
\* one-edge network of Scenario 1 gives a clone whose edge scores 20.0; the
\* baseline's edge keeps speed 45 and, when the baseline has been scored,
\* its score 27.0.
C8_Scenario2Scores20 ==
  [][\A scenario_name \in ScenarioNames :
       (ApplyScenario(scenario_name, Scenario2)
          /\ IsScenario1Network(heap, baseline)) =>
         /\ EdgeOf(heap', DictGet(scenarios', scenario_name), "e1").risk_score = 200
         /\ EdgeOf(heap', baseline', "e1").speed_limit_mph = 45
         /\ Scored(heap, baseline) =>
              EdgeOf(heap', baseline', "e1").risk_score = 270
    ]_vars

\* C8 amended: the clone's edge has speed 30 and scores 22.0; the baseline's
\* edge is unchanged, with speed 45 and, when the baseline has been scored,
\* risk score 29.0.
C8_Scenario2Scores22 ==
  [][\A scenario_name \in ScenarioNames :
       (ApplyScenario(scenario_name, Scenario2)
          /\ IsScenario1Network(heap, baseline)) =>
         /\ EdgeOf(heap', DictGet(scenarios', scenario_name), "e1").speed_limit_mph = 30
         /\ EdgeOf(heap', DictGet(scenarios', scenario_name), "e1").risk_score = 220
         /\ EdgeOf(heap', baseline', "e1") = EdgeOf(heap, baseline, "e1")
         /\ EdgeOf(heap', baseline', "e1").speed_limit_mph = 45
         /\ Scored(heap, baseline) =>
              EdgeOf(heap', baseline', "e1").risk_score = 290
    ]_vars

\* the scored one-edge baseline of Scenario 1 and a stored clone of it with
\* the edge at speed 30
C8_Witness ==
  /\ IsScenario1Network(heap, baseline)
  /\ Scored(heap, baseline)
  /\ \E i \in 1..Len(scenarios) :
       /\ IsScenario1Network(heap, scenarios[i][2]) = FALSE
       /\ Len(EdgeItems(heap, scenarios[i][2])) = 1
       /\ HasEdge(heap, scenarios[i][2], "e1")
       /\ EdgeOf(heap, scenarios[i][2], "e1").speed_limit_mph = 30

(***************************************************************************)
(* Properties of one call of apply_scenario (SpecApply)                    *)
(***************************************************************************)
\* every edge of the network has the score of its attributes
EdgesScored(h, net) ==
  \A i \in 1..Len(EdgeItems(h, net)) :
    LET e == h[EdgeItems(h, net)[i][2]]
    IN  e.risk_score = calculate_risk_score(e).risk_score

\* C16: the network apply_scenario returns, which is the one it stores, has
\* on every edge the risk_score of the edge's attributes after the
\* modifications, also when a change assigns risk_score or crash counters.
C16_ResultsScored ==
  (pc = "done" /\ ret.raised = "") =>
    /\ Len(scenarios) = 1
    /\ scenarios[1][2] = ret.network
    /\ EdgesScored(heap, ret.network)

\* the result of the scenario that assigns risk_score 99.0 and crash_count 3
C16_Witness ==
  /\ pc = "done"
  /\ criteria = assigns_score
  /\ ret.raised = ""
  /\ HasEdge(heap, ret.network, "e1")
  /\ EdgeOf(heap, ret.network, "e1").crash_count = 3
  /\ EdgeOf(heap, ret.network, "e1").risk_score # 990

\* the attributes of the elements a modification of this type works on
TargetAttrs(type) ==
  IF type \in EdgeModTypes THEN DOMAIN StreetEdge("e", "a", "b")
  ELSE IF type = "intersection_upgrade" THEN DOMAIN IntersectionNode("n", 0, 0)
  ELSE {}

\* the filter of modification m names an attribute its targets do not have
MissingOnTarget(m) ==
  \E i \in 1..Len(m.filter) : m.filter[i][1] \notin TargetAttrs(m.type)

\* the scenario without the modifications of that kind
WithoutMissing(scenario) ==
  [modifications |->
     SelectSeq(scenario.modifications, LAMBDA m : ~MissingOnTarget(m))]

RECURSIVE Overwritten(_, _)
Overwritten(o, change) ==
  IF change = << >> THEN o
  ELSE Overwritten(IF change[1][1] \in DOMAIN o
                     THEN [o EXCEPT ![change[1][1]] = change[1][2].v]
                     ELSE o,
                   Tail(change))

\* modification m works on elements with these attributes
WorksOn(m, o) == DOMAIN o = TargetAttrs(m.type)

\* the element after the modifications, each one matched against the
\* element as the ones before it left it
RECURSIVE Sequentially(_, _)
Sequentially(o, modifications) ==
  IF modifications = << >> THEN o
  ELSE LET m == Head(modifications)
       IN  Sequentially(IF WorksOn(m, o) /\ matches_filter(o, m.filter) = "True"
                          THEN Overwritten(o, m.change)
                          ELSE o,
                        Tail(modifications))

Unscored(o) == [o EXCEPT !.risk_score = 0]

\* C25: the modifications of a scenario are applied in list order, each
\* filter evaluated against the attributes as the earlier modifications
\* left them: every element of the result has, apart from risk_score, the
\* attributes of the baseline's element after the modifications in turn.
C25_SequentialModifications ==
  (pc = "done" /\ ret.raised = "") =>
    LET before == NetValue(heap, baseline)
        after == NetValue(heap, ret.network)
    IN  /\ \A i \in 1..Len(before.edges) :
             Unscored(after.edges[i][2]) =
               Unscored(Sequentially(before.edges[i][2], criteria.modifications))
        /\ \A i \in 1..Len(before.nodes) :
             after.nodes[i][2] =
               Sequentially(before.nodes[i][2], criteria.modifications)

\* an unlit 45 mph edge with 4 lanes: lit "poor" then "good" by the first
\* two modifications, slowed to 30 mph by the third and so not matched by
\* the fourth, which narrows edges of 35 mph and more
C25_Witness ==
  /\ pc = "done"
  /\ criteria = chained
  /\ ret.raised = ""
  /\ HasEdge(heap, baseline, "e1")
  /\ EdgeOf(heap, baseline, "e1").lighting_quality = "none"
  /\ EdgeOf(heap, baseline, "e1").speed_limit_mph = 45
  /\ EdgeOf(heap, ret.network, "e1").lighting_quality = "good"
  /\ EdgeOf(heap, ret.network, "e1").speed_limit_mph = 30
  /\ EdgeOf(heap, ret.network, "e1").lanes = 4

\* the attributes of o named in the change of a modification that works on
\* o and whose filter o matches when its turn comes
NamedFor(o, modifications) ==
  { k \in DOMAIN o :
      \E i \in 1..Len(modifications) :
        /\ WorksOn(modifications[i], o)
        /\ DictHas(modifications[i].change, k)
        /\ matches_filter(Sequentially(o, SubSeq(modifications, 1, i - 1)),
                          modifications[i].filter) = "True" }

\* o matches the filter of no modification that works on it
Unmatched(o, modifications) ==
  \A i \in 1..Len(modifications) :
    ~(/\ WorksOn(modifications[i], o)
      /\ matches_filter(o, modifications[i].filter) = "True")

\* element a of the result against element b of the baseline
FrameOf(a, b, modifications) ==
  /\ DOMAIN a = DOMAIN b
  /\ \A k \in DOMAIN b \ {"risk_score"} :
       a[k] # b[k] => k \in NamedFor(b, modifications)
  /\ Unmatched(b, modifications) => Unscored(a) = Unscored(b)

\* C30: the result of apply_scenario has the node identifiers and the edge
\* identifiers of the baseline; an element that matches no filter of a
\* modification of its kind has the baseline's attributes, risk_score
\* apart; on the other elements the attributes that differ from the
\* baseline's, risk_score apart, are attributes the element has that a
\* matching modification names in its change, and no attribute is added.
C30_ApplyScenarioFrame ==
  (pc = "done" /\ ret.raised = "") =>
    LET before == NetValue(heap, baseline)
        after == NetValue(heap, ret.network)
    IN  /\ Len(after.nodes) = Len(before.nodes)
        /\ Len(after.edges) = Len(before.edges)
        /\ \A i \in 1..Len(before.nodes) :
             /\ after.nodes[i][1] = before.nodes[i][1]
             /\ FrameOf(after.nodes[i][2], before.nodes[i][2],
                        criteria.modifications)
        /\ \A i \in 1..Len(before.edges) :
             /\ after.edges[i][1] = before.edges[i][1]
             /\ FrameOf(after.edges[i][2], before.edges[i][2],
                        criteria.modifications)

\* unknown_change on a baseline whose node A has two crashes: every edge
\* gets speed 20 and no attribute 'surface', node A gets a refuge island and
\* no attribute 'lanes', node B is as in the baseline
C30_Witness ==
  /\ pc = "done"
  /\ criteria = unknown_change
  /\ ret.raised = ""
  /\ HasEdge(heap, ret.network, "e1")
  /\ EdgeOf(heap, baseline, "e1").speed_limit_mph = 45
  /\ EdgeOf(heap, ret.network, "e1").speed_limit_mph = 20
  /\ "surface" \notin DOMAIN EdgeOf(heap, ret.network, "e1")
  /\ LET before == NetValue(heap, baseline)
         after == NetValue(heap, ret.network)
     IN  /\ ~before.nodes[1][2].has_refuge_island
         /\ after.nodes[1][2].has_refuge_island
         /\ "lanes" \notin DOMAIN after.nodes[1][2]
         /\ after.nodes[2] = before.nodes[2]

(***************************************************************************)
(* Properties of compare_scenarios, get_statistics and                     *)
(* calculate_risk_score on the simulator's networks (SpecReport)           *)
(***************************************************************************)
\* the scenario names of the request: all stored names when none is given
Requested ==
  IF criteria.t = "NoneType"
    THEN { scenarios[i][1] : i \in 1..Len(scenarios) }
    ELSE Range(criteria.v)

\* q1 = q2 for quotients with nonzero divisors
SameQuotient(q1, q2) == q1[1] * q2[2] = q2[1] * q1[2]

IsZero(q) == q[2] # 0 /\ q[1] = 0

IsPercentage(q) == q[2] > 0 /\ 0 <= q[1] /\ q[1] <= 100 * q[2]

C27_SideEffectFree ==
  [][\A net \in Networks :
       \A edge \in Range(DictValues(EdgeItems(heap, net))) :
         CallCalculateRiskScore(edge) => heap' = heap
    ]_vars

\* C27: calculate_risk_score on an edge returns the score and stores it in
\* the edge's risk_score; every other field of the edge and every other
\* element of the network are unchanged.
C27_WritesOnlyRiskScore ==
  [][\A net \in Networks :
       \A edge \in Range(DictValues(EdgeItems(heap, net))) :
         CallCalculateRiskScore(edge) =>
           /\ ret' = Max(0, ClaimedSum(heap[edge]))
           /\ heap' = [heap EXCEPT ![edge].risk_score = ret']
    ]_vars

\* the unscored edge of Scenario 1 after the call: its risk_score is 29.0
C27_Witness ==
  /\ pc = "scored"
  /\ ret = 290
  /\ OneEdgeHeap[criteria].risk_score = 0
  /\ heap = [OneEdgeHeap EXCEPT ![criteria].risk_score = 290]

(***************************************************************************)
(* Properties of export_to_file and load_from_file (SpecBuild)             *)
(***************************************************************************)
\* the attributes of a node other than its connected_edges
NodeAttributes(node) == [k \in DOMAIN node \ {"connected_edges"} |-> node[k]]

\* C21: the network loaded from the exported file has the node identifiers,
\* the edge identifiers, the attribute values of every node and edge and the
\* crash log of the original, and every node has the same set of connected
\* edge identifiers as in the original.
C21_RoundTrip ==
  pc = "loaded" =>
    LET original == NetValue(heap, baseline)
        loaded == NetValue(heap, ret)
    IN  /\ loaded.edges = original.edges
        /\ loaded.crashes = original.crashes
        /\ Len(loaded.nodes) = Len(original.nodes)
        /\ \A i \in 1..Len(original.nodes) :
             /\ loaded.nodes[i][1] = original.nodes[i][1]
             /\ NodeAttributes(loaded.nodes[i][2])
                  = NodeAttributes(original.nodes[i][2])
             /\ Range(loaded.nodes[i][2].connected_edges)
                  = Range(original.nodes[i][2].connected_edges)

====
